---- MODULE Spec2Model ----
(***************************************************************************)
(* The import ("preserver") engine of the Bashed Patch: _APreserver of     *)
(* patcher/patchers/preservers.py with the subclasses NamesPatcher,        *)
(* NpcFacePatcher, GraphicsPatcher, KeywordsImporter and                   *)
(* WeaponModsPatcher.                                                      *)
(*                                                                         *)
(* One run of one patcher is modelled: initData over the tagged source     *)
(* plugins (one step per source, then the CSV sources), the scan of every  *)
(* plugin in load order, and buildPatch.  The plugins (their masters, bash *)
(* tags and records) and the parsed CSV data are the inputs; they are      *)
(* chosen in the initial state and never change.                           *)
(*                                                                         *)
(* Values are small integers.  A FormID-valued attribute holds the index   *)
(* of the plugin that owns the referenced record (see NullFid, NoOwner).   *)
(* A text value v stands for a string whose lower-cased form is Lower(v).  *)
(***************************************************************************)
EXTENDS Integers, Sequences, FiniteSets, TLC

\* ------------------------------------------------------------------ bounds
\* Number of plugins in the load order (plugin 1 loads first).
NMods == 3
\* Plain attribute values are 0..MaxVal.
MaxVal == 1
\* FormIDs of the modelled record type are 1..NFids.
NFids == 2

Mods == 1..NMods
Fids == 1..NFids
Vals == 0..MaxVal

\* A null FormID (falsy in Python), a FormID whose owning file is None, and
\* the index standing for a plugin file that is not part of the load order.
NullFid == 0
NoOwner == -1
AbsentMod == NMods + 1

\* The value None of a model attribute (GraphicsPatcher).
NoneVal == -1

\* The map with no entries (an empty dict).
EmptyMap == [a \in {} |-> 0]

\* ------------------------------------------------------------ state
VARIABLES
    cls,          \* the patcher class that runs
    mods,         \* load order: mods[m] = [masters, tags, recs]
    csv,          \* result of the CSV parser: record type -> fid -> row
    pc,           \* position of the run
    src_idx,      \* initData: index into srcs of the next source
    scan_idx,     \* scan: index of the next plugin of the load order
    isActive,     \* self.isActive
    id_data,      \* self.id_data: the delta map, fid -> attr -> value
    srcClasses,   \* self.srcClasses
    skipcount,    \* patchFile.patcher_mod_skipcount[patcher], per source
    tops,         \* patchFile.tops[type].id_records, fid -> record
    tops_from,    \* ghost: the plugin each staged record was copied from
    staged_by,    \* ghost: <<fid, mod>> of the preserver's setRecord calls
    kept,         \* patchFile.keepIds
    keep_calls,   \* ghost: number of keep(fid) calls per fid
    type_count,   \* type_count[top_mod_rec] of buildPatch
    wrote,        \* ghost: <<src, fid, attr>> written to id_data (src 0: CSV)
    end_id_data,  \* ghost: id_data as the latest initData left it
    runs,         \* ghost: the results of the completed earlier runs
    cats,         \* the categories (patcher classes) of the build, in order
    cat_idx,      \* index into cats of the category that runs
    outcomes,     \* ghost: how the earlier categories ended
    reader,       \* the class whose readFromText reads a CSV file
    rows,         \* the rows of the CSV file, each a sequence of fields
    row_idx,      \* index into rows of the next row
    table,        \* what readFromText has imported: id -> value
    rd_pc,        \* position of readFromText
    tw_on,        \* the tweaks of the AssortedTweaker that are enabled
    chosen,       \* the chosen weights of the potion tweaks, in 1/20
    patch0,       \* ghost: the patch's records when buildPatch began
    patch,        \* the patch's records: record type -> sequence
    tkept,        \* the keep(fid) calls of the tweaks: <<type, index>>
    tw_isActive,  \* the tweaker's isActive
    tw_idx,       \* index into enabled_tweaks of the tweak that runs
    rec_idx,      \* index of the tweak's next record
    tw_pc,        \* position of the tweaker's buildPatch
    wanted,       \* what the latest wants_record returned
    inBold,       \* AssortedTweak_DarnBooks.inBold
    races0,       \* ghost: the RACE records when the eye filtering began
    races,        \* patchFile.RACE.records
    eye_mesh,     \* self.eye_mesh: eye -> (right, left) mesh pair
    vanilla_eyes, \* self.vanilla_eyes: race -> the race's default eyes
    hair_flags,   \* patchFile.HAIR.records: hair -> flags
    npcs0,        \* ghost: the NPC_ records when buildPatch began
    npcs,         \* patchFile.NPC_.records
    rkept,        \* the keep(fid) calls of the race patcher: <<type, index>>
    final_eyes,   \* final_eyes of buildPatch: race -> eyes
    defaultHair,  \* defaultMaleHair and defaultFemaleHair: race -> hairs
    rc_idx,       \* index of the next race or NPC
    rc_pc         \* position of RacePatcher.buildPatch

\* The variables of readFromText.
readerVars == <<reader, rows, row_idx, table, rd_pc>>

\* The variables of the AssortedTweaker.
tweakVars == <<tw_on, chosen, patch0, patch, tkept, tw_isActive, tw_idx,
               rec_idx, tw_pc, wanted, inBold>>

\* The variables of the race patcher.
raceVars == <<races0, races, eye_mesh, vanilla_eyes, hair_flags, npcs0, npcs,
              rkept, final_eyes, defaultHair, rc_idx, rc_pc>>

\* ------------------------------------------- the further patchers' variables
VARIABLES
    sc_plugins, \* the load order: per plugin, its records fid -> value
    sc_kinds, \* the scanModFile of the two patchers
    sc_data, \* id_data of a preserver among them: fid -> value
    sc_order, \* the order of the scanModFile calls
    sc_loads, \* when the patch file updates its records from a plugin
    sc_loaded, \* the plugins the patch file has updated its records from
    sc_pos, \* per patcher, the plugin its next scanModFile call scans
    sc_patch, \* the patch's records of the type: fid -> value
    sc_from, \* ghost: the plugin each record of the patch is a copy of
    sc_staged  \* ghost: the setRecord calls, <<patcher, fid, plugin>>

\* The variables of the scan phase of two patchers.
scanVars == <<sc_plugins, sc_kinds, sc_data, sc_order, sc_loads, sc_loaded,
              sc_pos, sc_patch, sc_from, sc_staged>>

\* No scan phase runs.
IdleScan ==
    /\ sc_plugins = <<>>
    /\ sc_kinds = <<>>
    /\ sc_data = <<>>
    /\ sc_order = ""
    /\ sc_loads = ""
    /\ sc_loaded = {}
    /\ sc_pos = <<>>
    /\ sc_patch = <<>>
    /\ sc_from = <<>>
    /\ sc_staged = {}

VARIABLES
    od_instances, \* the enabled patchers, as the patch file was given them
    od_sorted, \* the patchers in the order of their build passes
    od_idx, \* index into od_sorted of the patcher whose buildPatch runs
    od_step, \* the number of mutations that buildPatch has made
    od_log, \* ghost: the patcher of each mutation of the patch, in order
    od_pc  \* position of the build

\* The variables of the build passes of the enabled patchers.
orderVars == <<od_instances, od_sorted, od_idx, od_step, od_log, od_pc>>

\* No build passes run.
IdleOrder ==
    /\ od_instances = <<>>
    /\ od_sorted = <<>>
    /\ od_idx = 1
    /\ od_step = 0
    /\ od_log = <<>>
    /\ od_pc = "idle"

VARIABLES
    rn_state, \* the state of the generator of the random module
    rn_eyes, \* final_eyes of the NPCs' race
    rn_hairs, \* the default hairs of the NPCs' race and sex
    rn_npcs0, \* the NPCs of the patch before a build
    rn_npcs, \* the NPCs of the patch
    rn_idx, \* index of the NPC that buildPatch is at
    rn_build, \* the number of the build that runs
    rn_first, \* the NPCs after the first build
    rn_pc  \* position of the builds

\* The variables of two builds that draw from the random module.
randomVars == <<rn_state, rn_eyes, rn_hairs, rn_npcs0, rn_npcs, rn_idx,
                rn_build, rn_first, rn_pc>>

\* No build draws random numbers.
IdleRandom ==
    /\ rn_state = 0
    /\ rn_eyes = <<>>
    /\ rn_hairs = <<>>
    /\ rn_npcs0 = <<>>
    /\ rn_npcs = <<>>
    /\ rn_idx = 1
    /\ rn_build = 0
    /\ rn_first = <<>>
    /\ rn_pc = "idle"

VARIABLES
    ce_srcs, \* self.srcs: the rows of each CSV file, fid -> time
    ce_loadSet, \* whether Cobl Main.esm is in p_file.loadSet
    ce_version, \* getVersionFloat(Cobl Main.esm), in hundredths
    ce_isActive, \* self.isActive
    ce_id_exhaustion, \* self.id_exhaustion
    ce_plugin, \* the SPEL records of the plugin
    ce_patch, \* the SPEL records of the patch
    ce_scanned, \* the SPEL records of the patch when buildPatch is called
    ce_kept, \* the FormIDs kept
    ce_pc  \* position of the patcher

\* The variables of the CoblExhaustion patcher.
coblVars == <<ce_srcs, ce_loadSet, ce_version, ce_isActive,
              ce_id_exhaustion, ce_plugin, ce_patch, ce_scanned, ce_kept,
              ce_pc>>

\* No CoblExhaustion patcher runs.
IdleCobl ==
    /\ ce_srcs = <<>>
    /\ ce_loadSet = FALSE
    /\ ce_version = 0
    /\ ce_isActive = FALSE
    /\ ce_id_exhaustion = <<>>
    /\ ce_plugin = <<>>
    /\ ce_patch = <<>>
    /\ ce_scanned = <<>>
    /\ ce_kept = {}
    /\ ce_pc = "idle"

VARIABLES
    ci_isActive, \* self.isActive
    ci_cellData, \* self.cellData: fid -> the attributes and flags to import
    ci_data0, \* ghost: cellData when buildPatch is called
    ci_cells0, \* the cell blocks of the patch when buildPatch is called
    ci_cells, \* the cell blocks of the patch
    ci_idx, \* index of the cell block that buildPatch is at
    ci_kept, \* the FormIDs kept
    ci_pc  \* position of buildPatch

\* The variables of the CellImporter's build.
cellVars == <<ci_isActive, ci_cellData, ci_data0, ci_cells0, ci_cells,
              ci_idx, ci_kept, ci_pc>>

\* No CellImporter builds.
IdleCell ==
    /\ ci_isActive = FALSE
    /\ ci_cellData = <<>>
    /\ ci_data0 = <<>>
    /\ ci_cells0 = <<>>
    /\ ci_cells = <<>>
    /\ ci_idx = 1
    /\ ci_kept = {}
    /\ ci_pc = "idle"

VARIABLES
    en_uses, \* self.choiceValues[self.chosen][0]: the number of uses
    en_records0, \* the ENCH records of the patch before the tweak
    en_records, \* the ENCH records of the patch
    en_first, \* the ENCH records after the first buildPatch
    en_idx, \* index of the record that buildPatch is at
    en_kept, \* the indexes of the records kept by the buildPatch that runs
    en_run, \* the number of the buildPatch that runs
    en_pc  \* position of the tweak

\* The variables of the enchantment number-of-uses tweak.
enchVars == <<en_uses, en_records0, en_records, en_first, en_idx, en_kept,
              en_run, en_pc>>

\* No enchantment tweak runs.
IdleEnch ==
    /\ en_uses = 0
    /\ en_records0 = <<>>
    /\ en_records = <<>>
    /\ en_first = <<>>
    /\ en_idx = 1
    /\ en_kept = {}
    /\ en_run = 0
    /\ en_pc = "idle"

VARIABLES
    mg_kind, \* the tweak: the list it merges, hairs or eyes
    mg_extra, \* extra_: lower-cased race name -> the race's list
    mg_order, \* the order in which a loop over extra_ yields its keys
    mg_changed, \* changedHairs or changedEyes
    mg_i, \* index into mg_order of the race of the outer loop
    mg_lists, \* the lists of the RACE records of the patch, by name
    mg_kept, \* the races kept
    mg_pc  \* position of buildPatch

\* The variables of the tweaks that merge similar races' lists.
mergeVars == <<mg_kind, mg_extra, mg_order, mg_changed, mg_i, mg_lists,
               mg_kept, mg_pc>>

\* No merge tweak runs.
IdleMerge ==
    /\ mg_kind = ""
    /\ mg_extra = <<>>
    /\ mg_order = <<>>
    /\ mg_changed = <<>>
    /\ mg_i = 1
    /\ mg_lists = <<>>
    /\ mg_kept = {}
    /\ mg_pc = "idle"

VARIABLES
    im_raceData, \* self.raceData: fid -> the values to import
    im_races0, \* the RACE records of the patch before buildPatch
    im_races, \* the RACE records of the patch
    im_imported, \* ghost: the RACE records after the import
    im_idx, \* index of the race that buildPatch is at
    im_kept, \* the indexes of the races kept
    im_pc  \* position of buildPatch

\* The variables of the race import of the RacePatcher.
importVars == <<im_raceData, im_races0, im_races, im_imported, im_idx,
                im_kept, im_pc>>

\* No race import runs.
IdleImport ==
    /\ im_raceData = <<>>
    /\ im_races0 = <<>>
    /\ im_races = <<>>
    /\ im_imported = <<>>
    /\ im_idx = 1
    /\ im_kept = {}
    /\ im_pc = "idle"

\* The variables of the further patchers.
laterVars == <<scanVars, orderVars, randomVars, coblVars, cellVars,
              enchVars, mergeVars, importVars>>

\* None of the further patchers runs.
IdleLater ==
    /\ IdleScan
    /\ IdleOrder
    /\ IdleRandom
    /\ IdleCobl
    /\ IdleCell
    /\ IdleEnch
    /\ IdleMerge
    /\ IdleImport

\* ----------------------------------------------- end of these variables

\* The variables outside the preserver patchers.
aside == <<readerVars, tweakVars, raceVars, laterVars>>

\* The variables outside the preserver engine.
others == <<runs, cats, cat_idx, outcomes, aside>>

\* No CSV file is read.
IdleReader ==
    /\ reader = "" /\ rows = <<>> /\ row_idx = 1
    /\ table = [a \in {} |-> 0] /\ rd_pc = "idle"

\* No tweaker runs.
IdleTweaks ==
    /\ tw_on = {} /\ chosen = <<>> /\ patch0 = <<>> /\ patch = <<>>
    /\ tkept = {} /\ tw_isActive = FALSE /\ tw_idx = 1 /\ rec_idx = 1
    /\ tw_pc = "idle" /\ wanted = FALSE /\ inBold = "unset"

\* No race patcher runs.
IdleRaces ==
    /\ races0 = <<>> /\ races = <<>> /\ eye_mesh = <<>>
    /\ vanilla_eyes = <<>> /\ hair_flags = <<>> /\ npcs0 = <<>>
    /\ npcs = <<>> /\ rkept = {} /\ final_eyes = <<>>
    /\ defaultHair = <<>> /\ rc_idx = 1 /\ rc_pc = "idle"

\* Nothing but the preserver runs.
IdleAside == IdleReader /\ IdleTweaks /\ IdleRaces /\ IdleLater

vars == <<cls, mods, csv, pc, src_idx, scan_idx, isActive, id_data,
          srcClasses, skipcount, tops, tops_from, staged_by, kept,
          keep_calls, type_count, wrote, end_id_data, others>>

inputs == <<cls, mods, csv>>

\* ------------------------------------------------- class configuration
\* _multi_tag of the class.
multi_tag(c) == c \in {"NpcFacePatcher"}

\* _csv_parser of the class is set.
csv_parser(c) == c \in {"NamesPatcher", "SpellsPatcher"}

\* _force_full_import_tag of the class ("" for None).
force_full_import_tag(c) ==
    IF c = "NpcFacePatcher" THEN "NpcFacesForceFullImport" ELSE ""

\* The bash tags that make a plugin a source of the class.
ClassTags(c) ==
    CASE c = "NpcFacePatcher" ->
            {"NPC.Eyes", "NPC.FaceGen", "NPC.Hair", "NpcFacesForceFullImport"}
      [] c = "NamesPatcher" -> {"Names"}
      [] c = "GraphicsPatcher" -> {"Graphics"}
      [] c = "KeywordsImporter" -> {"Keywords"}
      [] c = "SpellsPatcher" -> {"SpellStats"}
      [] OTHER -> {"WeaponMods"}

\* rec_attrs of the class; every attribute tuple is cut to its first
\* attribute (to its first two for WeaponModsPatcher).
rec_attrs(c) ==
    CASE c = "NpcFacePatcher" ->
            [t \in ClassTags(c) |->
                CASE t = "NPC.Eyes" -> {}
                  [] t = "NPC.FaceGen" -> {"fggs_p"}
                  [] t = "NPC.Hair" -> {"hairLength"}
                  [] OTHER -> {"fggs_p", "hairLength"}]
      [] c = "NamesPatcher" -> {"full"}
      [] c = "GraphicsPatcher" -> {"iconPath", "model"}
      [] c = "KeywordsImporter" -> {"keywords"}
      [] c = "SpellsPatcher" -> {"cost", "level"}
      [] OTHER -> {"modelWithMods", "weaponMods"}

\* _fid_rec_attrs of the class.
fid_rec_attrs(c) ==
    CASE c = "NpcFacePatcher" ->
            [t \in ClassTags(c) |->
                CASE t = "NPC.Eyes" -> {"eye"}
                  [] t = "NPC.FaceGen" -> {}
                  [] t = "NPC.Hair" -> {"hair"}
                  [] OTHER -> {"eye", "hair"}]
      [] OTHER -> {}

\* self._fid_rec_attrs_class[recClass].
fid_rec_attrs_class(c) == fid_rec_attrs(c)

\* self.recAttrs_class[recClass]: collect_attrs adds the FormID attributes.
recAttrs_class(c) ==
    IF multi_tag(c)
    THEN [t \in DOMAIN rec_attrs(c) |->
            rec_attrs(c)[t] \cup
            (IF t \in DOMAIN fid_rec_attrs(c) THEN fid_rec_attrs(c)[t] ELSE {})]
    ELSE rec_attrs(c) \cup fid_rec_attrs(c)

\* Attributes GraphicsPatcher compares as models (bush.game.graphicsModelAttrs).
graphicsModelAttrs == {"model"}

\* Attributes of the modelled record type whose values are strings.
StringAttrs == {"iconPath", "full"}

\* All attributes of a record of the class's record type.
ClassAttrs(c) ==
    CASE c = "NpcFacePatcher" -> {"fggs_p", "hairLength", "eye", "hair"}
      [] c = "NamesPatcher" -> {"eid", "full"}
      [] c = "GraphicsPatcher" -> {"iconPath", "model"}
      [] c = "KeywordsImporter" -> {"keywords"}
      [] c = "SpellsPatcher" -> {"cost", "level"}
      [] OTHER -> {"modelWithMods", "weaponMods"}

\* The attributes whose values are FormIDs: eye and hair of an NPC, and the
\* keywords of a record ("Keywords are all fids"); a keywords list is modelled
\* by the FormID of its one keyword, the empty list by the null FormID.
RefAttrs == {"eye", "hair", "keywords"}

\* unicode.lower(): value 2k+1 is a differently cased spelling of value 2k.
Lower(v) == IF v < 0 THEN v ELSE 2 * (v \div 2)

\* patchFile.loadSet and patchFile.p_file_minfos: every plugin of the load
\* order is loaded and known.
loadSet == Mods

\* ------------------------------------------------------------ helpers
RECURSIVE SortedSeq(_)
\* The elements of a set of integers in ascending order.
SortedSeq(S) ==
    IF S = {} THEN <<>>
    ELSE LET lo == CHOOSE x \in S : \A y \in S : x <= y
         IN <<lo>> \o SortedSeq(S \ {lo})

\* The sources in another order in a second run.
srcs_per_run ==
    LET q == SortedSeq({m \in Mods : mods[m].tags \cap ClassTags(cls) # {}})
    IN IF runs = <<>> THEN q
       ELSE [k \in 1..Len(q) |-> q[Len(q) + 1 - k]]

\* self.srcs: the tagged plugins of the class, in load order.
srcs == SortedSeq({m \in Mods : mods[m].tags \cap ClassTags(cls) # {}})

\* self.csv_srcs is not empty.
has_csv_srcs == csv_parser(cls) /\ DOMAIN csv # {}

\* The record types of MreRecord.type_class.
type_class == {"REC"}

\* Mutant of DictUpdate: the dict is replaced by the other one.
DictReplace(d, other) == other

\* dict.update(other).
DictUpdate(d, other) ==
    [k \in DOMAIN d \cup DOMAIN other |->
        IF k \in DOMAIN other THEN other[k] ELSE d[k]]

\* ------------------------------------------------------------ initData
\* Mutant of CapturedAttrs: the attribute tuples of all tags are captured.
CapturedAttrsAllTags(m) ==
    IF multi_tag(cls)
    THEN UNION {recAttrs_class(cls)[t] : t \in DOMAIN recAttrs_class(cls)}
    ELSE recAttrs_class(cls)

\* _init_data_loop: the attributes captured from source m (per its tags for
\* a multi-tag importer).
CapturedAttrs(m) ==
    IF multi_tag(cls)
    THEN UNION {recAttrs_class(cls)[t] :
                    t \in DOMAIN recAttrs_class(cls) \cap mods[m].tags}
    ELSE recAttrs_class(cls)

\* _init_data_loop: the FormID attributes validated for source m.
FidAttrsOf(m) ==
    IF multi_tag(cls)
    THEN UNION {fid_rec_attrs_class(cls)[t] :
                    t \in DOMAIN fid_rec_attrs_class(cls) \cap mods[m].tags}
    ELSE fid_rec_attrs_class(cls)

\* f and (f[0] is None or f[0] not in loaded_mods)
BadRef(f) == f # NullFid /\ (f = NoOwner \/ f \notin loadSet)

\* _init_data_loop: the record fid of source m is ignored.
RecIgnored(m, fid) ==
    /\ FidAttrsOf(m) # {}
    /\ \E a \in FidAttrsOf(m) : BadRef(mods[m].recs[fid][a])

\* _init_data_loop: temp_id_data after the loop over the records of m.
init_data_loop(m) ==
    [fid \in {f \in DOMAIN mods[m].recs : ~RecIgnored(m, f)} |->
        [a \in CapturedAttrs(m) |-> mods[m].recs[fid][a]]]

\* _init_data_loop: the increments of patcher_mod_skipcount[..][srcMod].
SkipsOf(m) == Cardinality({f \in DOMAIN mods[m].recs : RecIgnored(m, f)})

\* Mutant of SameAsMaster: no value counts as the master's, so every captured
\* attribute is imported.
SameAsMasterNever(value, master_value) == FALSE

\* initData: the comparison of a captured value with a master's value.
SameAsMaster(value, master_value) == value = master_value

\* Mutant of PromotedAttrs: one differing attribute imports every captured
\* attribute of the record.
PromotedAttrsAll(temp, master, fid) ==
    IF /\ fid \in DOMAIN temp /\ fid \in DOMAIN mods[master].recs
       /\ \E a \in DOMAIN temp[fid] :
              temp[fid][a] # mods[master].recs[fid][a]
    THEN DOMAIN temp[fid]
    ELSE {}

\* initData, "for attr, value in temp_id_data[fid].iteritems()" against one
\* master: the attributes of fid that are assigned to id_data[fid].
PromotedAttrs(temp, master, fid) ==
    IF fid \in DOMAIN temp /\ fid \in DOMAIN mods[master].recs
    THEN {a \in DOMAIN temp[fid] :
            ~SameAsMaster(temp[fid][a], mods[master].recs[fid][a])}
    ELSE {}

\* Mutant of MasterPass: a record with a differing attribute replaces the
\* whole entry of id_data (record-level instead of attribute-level import).
MasterPassWholeRecord(D, temp, master) ==
    [fid \in DOMAIN D \cup
             {f \in Fids : PromotedAttrs(temp, master, f) # {}} |->
        IF PromotedAttrs(temp, master, fid) # {} THEN temp[fid] ELSE D[fid]]

\* initData, body of "for master in masters" for one master: every captured
\* attribute that differs from the master's value is written to id_data.
MasterPass(D, temp, master) ==
    [fid \in DOMAIN D \cup
             {f \in Fids : PromotedAttrs(temp, master, f) # {}} |->
        LET old == IF fid \in DOMAIN D THEN D[fid] ELSE EmptyMap
            new == PromotedAttrs(temp, master, fid)
        IN [a \in DOMAIN old \cup new |->
              IF a \in new THEN temp[fid][a] ELSE old[a]]]

RECURSIVE MastersLoop(_, _, _)
\* initData: "for master in masters", in master order.
MastersLoop(D, temp, masters) ==
    IF masters = <<>> THEN D
    ELSE MastersLoop(MasterPass(D, temp, Head(masters)), temp, Tail(masters))

\* initData: the source carries the force-full-import tag of the class.
ForceFullImport(m) ==
    /\ force_full_import_tag(cls) # ""
    /\ force_full_import_tag(cls) \in mods[m].tags

\* initData: id_data after the loop body for source m.
InitDataFor(D, m) ==
    IF ForceFullImport(m)
    THEN DictUpdate(D, init_data_loop(m))
    ELSE MastersLoop(D, init_data_loop(m), mods[m].masters)

\* initData: the (fid, attr) assignments to id_data made for source m.
AssignedBy(m) ==
    LET temp == init_data_loop(m)
    IN IF ForceFullImport(m)
       THEN {<<f, a>> \in Fids \X ClassAttrs(cls) :
                f \in DOMAIN temp /\ a \in DOMAIN temp[f]}
       ELSE {<<f, a>> \in Fids \X ClassAttrs(cls) :
                \E k \in 1..Len(mods[m].masters) :
                    a \in PromotedAttrs(temp, mods[m].masters[k], f)}

\* The masters of m, by position in its master list, that hold a record
\* captured from m without one of the captured attributes: the attrgetter
\* raises AttributeError on it.
MismatchedMasters(m) ==
    {k \in 1..Len(mods[m].masters) :
        \E f \in DOMAIN init_data_loop(m) \cap DOMAIN mods[mods[m].masters[k]].recs :
            \E a \in DOMAIN init_data_loop(m)[f] :
                a \notin DOMAIN mods[mods[m].masters[k]].recs[f]}

\* Mutant of Raises: a master that merely holds a captured record raises.
RaisesOnAnyRecord(m) ==
    /\ ~ForceFullImport(m)
    /\ \E k \in 1..Len(mods[m].masters) :
          DOMAIN init_data_loop(m) \cap DOMAIN mods[mods[m].masters[k]].recs # {}

\* initData: the loop body for source m raises ModSigMismatchError
\* ("except AttributeError: raise ModSigMismatchError(master, record)").
Raises(m) == ~ForceFullImport(m) /\ MismatchedMasters(m) # {}

\* initData: the states id_data may be in when the loop body for source m
\* raises.  The masters before the first mismatched one were processed in
\* full; of that master's records, those before the mismatched one, and of
\* the mismatched record the attributes before the missing one, in the
\* iteration order of the file and of the dict: any set of the assignments
\* that this master gives rise to.
RaisePartials(D, m) ==
    LET temp == init_data_loop(m)
        ks == MismatchedMasters(m)
        k0 == IF ks = {} THEN Len(mods[m].masters) + 1
              ELSE CHOOSE k \in ks : \A j \in ks : k <= j
        D0 == MastersLoop(D, temp, SubSeq(mods[m].masters, 1, k0 - 1))
        mr == IF ks = {} THEN EmptyMap ELSE mods[mods[m].masters[k0]].recs
        ws == {fa \in Fids \X ClassAttrs(cls) :
                 /\ fa[1] \in DOMAIN temp /\ fa[1] \in DOMAIN mr
                 /\ fa[2] \in DOMAIN temp[fa[1]]
                 /\ fa[2] \in DOMAIN mr[fa[1]]
                 /\ ~SameAsMaster(temp[fa[1]][fa[2]], mr[fa[1]][fa[2]])}
    IN {[fid \in DOMAIN D0 \cup {fa[1] : fa \in W} |->
            LET old == IF fid \in DOMAIN D0 THEN D0[fid] ELSE EmptyMap
                new == {fa[2] : fa \in {x \in W : x[1] = fid}}
            IN [a \in DOMAIN old \cup new |->
                  IF a \in new THEN temp[fid][a] ELSE old[a]]] :
        W \in SUBSET ws}

\* initData with self.isActive false: returns at once.
InitDataInactive ==
    /\ pc = "initData" /\ ~isActive
    /\ pc' = "update"
    /\ end_id_data' = id_data
    /\ UNCHANGED <<inputs, src_idx, scan_idx, isActive, id_data, srcClasses,
                   skipcount, tops, tops_from, staged_by, kept, keep_calls,
                   type_count, wrote>>
    /\ UNCHANGED others

\* initData: one iteration of "for index,srcMod in enumerate(self.srcs)".
InitDataSrc ==
    /\ pc = "initData" /\ isActive /\ src_idx <= Len(srcs)
    /\ ~Raises(srcs[src_idx])
    /\ LET m == srcs[src_idx]
       IN /\ id_data' = InitDataFor(id_data, m)
          /\ srcClasses' = IF DOMAIN mods[m].recs # {}
                           THEN srcClasses \cup {"REC"} ELSE srcClasses
          /\ skipcount' = [skipcount EXCEPT ![m] = @ + SkipsOf(m)]
          /\ wrote' = wrote \cup {<<m, fa[1], fa[2]>> : fa \in AssignedBy(m)}
    /\ src_idx' = src_idx + 1
    /\ UNCHANGED <<inputs, end_id_data, pc, scan_idx, isActive, tops, tops_from,
                   staged_by, kept, keep_calls, type_count>>
    /\ UNCHANGED others

\* initData: the loop body for source srcs[src_idx] raises
\* ModSigMismatchError, which initData does not handle: the patcher's
\* initData ends there.
InitDataRaise ==
    /\ pc = "initData" /\ isActive /\ src_idx <= Len(srcs)
    /\ Raises(srcs[src_idx])
    /\ LET m == srcs[src_idx]
       IN /\ id_data' \in RaisePartials(id_data, m)
          /\ srcClasses' = IF DOMAIN mods[m].recs # {}
                           THEN srcClasses \cup {"REC"} ELSE srcClasses
          /\ skipcount' = [skipcount EXCEPT ![m] = @ + SkipsOf(m)]
    /\ pc' = "failed"
    /\ UNCHANGED <<inputs, end_id_data, src_idx, scan_idx, isActive, tops,
                   tops_from, staged_by, kept, keep_calls, type_count, wrote>>
    /\ UNCHANGED others

\* self.rec_attrs[b'SPEL'] of the SpellsPatcher, a tuple, cut to two
\* attributes.
spell_stats_attrs == <<"cost", "level">>

\* {a: v for a, v in zip(attrs, l)}: as many attributes as the shorter of
\* the two has.
ZipAttrs(attrs, l) ==
    LET n == IF Len(l) < Len(attrs) THEN Len(l) ELSE Len(attrs)
    IN [a \in {attrs[k] : k \in 1..n} |->
          l[CHOOSE k \in 1..n : attrs[k] = a]]

\* _parse_csv_sources: NamesPatcher discards the editor id of a row and
\* keeps its name; SpellsPatcher adds the attribute names to the values of
\* a row.
ParsedCsv ==
    IF cls = "SpellsPatcher"
    THEN [r \in DOMAIN csv |->
            [f \in DOMAIN csv[r] |-> ZipAttrs(spell_stats_attrs, csv[r][f])]]
    ELSE [r \in DOMAIN csv |->
            [f \in DOMAIN csv[r] |-> [full |-> csv[r][f][2]]]]

\* _process_csv_sources: the entries of known record types.
filtered_dict(parsed_sources) ==
    [k \in {r \in DOMAIN parsed_sources : r # "" /\ r \in type_class} |->
        parsed_sources[k]]

RECURSIVE UpdateAll(_, _, _)
\* _process_csv_sources: self.id_data.update(src_data) for every type.
UpdateAll(D, fd, types) ==
    IF types = {} THEN D
    ELSE LET t == CHOOSE x \in types : TRUE
         IN UpdateAll(DictUpdate(D, fd[t]), fd, types \ {t})

\* Mutant of process_csv_sources: the attributes of a row are added to the
\* entry that id_data has.
process_csv_sources_merged(D, parsed_sources) ==
    LET U == UpdateAll(EmptyMap, filtered_dict(parsed_sources),
                       DOMAIN filtered_dict(parsed_sources))
    IN [f \in DOMAIN D \cup DOMAIN U |->
          IF f \notin DOMAIN U THEN D[f]
          ELSE IF f \notin DOMAIN D THEN U[f]
          ELSE DictUpdate(D[f], U[f])]

\* Mutant of process_csv_sources: an entry that id_data already has is kept.
process_csv_sources_setdefault(D, parsed_sources) ==
    DictUpdate(UpdateAll(EmptyMap, filtered_dict(parsed_sources),
                         DOMAIN filtered_dict(parsed_sources)), D)

\* _process_csv_sources: id_data afterwards.
process_csv_sources(D, parsed_sources) ==
    UpdateAll(D, filtered_dict(parsed_sources),
              DOMAIN filtered_dict(parsed_sources))

\* initData after the loop over the sources: the CSV sources, then
\* self.isActive = bool(self.srcClasses).
InitDataFinish ==
    /\ pc = "initData" /\ isActive /\ src_idx > Len(srcs)
    /\ LET D2 == IF csv_parser(cls)
                 THEN process_csv_sources(id_data, ParsedCsv) ELSE id_data
           sc == IF csv_parser(cls)
                 THEN srcClasses \cup DOMAIN filtered_dict(ParsedCsv)
                 ELSE srcClasses
       IN /\ id_data' = D2
          /\ end_id_data' = D2
          /\ srcClasses' = sc
          /\ isActive' = (sc # {})
          /\ wrote' = wrote \cup
               (IF csv_parser(cls)
                THEN {<<0, f, a>> : <<f, a>> \in
                        {fa \in Fids \X ClassAttrs(cls) :
                            \E r \in DOMAIN filtered_dict(ParsedCsv) :
                               /\ fa[1] \in DOMAIN ParsedCsv[r]
                               /\ fa[2] \in DOMAIN ParsedCsv[r][fa[1]]}}
                ELSE {})
    /\ pc' = "update"
    /\ UNCHANGED <<inputs, src_idx, scan_idx, skipcount, tops, tops_from,
                   staged_by, kept, keep_calls, type_count>>
    /\ UNCHANGED others

\* ------------------------------------------------------------ scan
\* PatchFile.update_patch_records_from_mod, which the patch file runs on a
\* plugin before the patchers scan it: a record that is already in the patch
\* is overwritten by the plugin's version of it.
update_patch_records_from_mod(T, m) ==
    [fid \in DOMAIN T |->
        IF fid \in DOMAIN mods[m].recs THEN mods[m].recs[fid] ELSE T[fid]]

\* Mutant of ScanDiffers: every record whose FormID is in id_data is copied.
ScanDiffersAlways(record, d) == TRUE

\* scanModFile: the record differs from id_data in some attribute.
ScanDiffers(record, d) == \E a \in DOMAIN d : record[a] # d[a]

\* scanModFile: the FormIDs of plugin m that are copied into the patch.
ScanCopies(T, m) ==
    IF "REC" \in srcClasses
    THEN {fid \in DOMAIN mods[m].recs :
            /\ ~(fid \in DOMAIN T \/ fid \notin DOMAIN id_data)
            /\ ScanDiffers(mods[m].recs[fid], id_data[fid])}
    ELSE {}

\* The patch file updates its records from plugin scan_idx.
UpdatePatchRecords ==
    /\ pc = "update" /\ scan_idx <= NMods
    /\ tops' = update_patch_records_from_mod(tops, scan_idx)
    /\ tops_from' = [fid \in DOMAIN tops |->
                        IF fid \in DOMAIN mods[scan_idx].recs
                        THEN scan_idx ELSE tops_from[fid]]
    /\ pc' = "scan"
    /\ UNCHANGED <<inputs, end_id_data, src_idx, scan_idx, isActive, id_data, srcClasses,
                   skipcount, staged_by, kept, keep_calls, type_count, wrote>>
    /\ UNCHANGED others

\* scanModFile(modFile) for plugin scan_idx.
ScanModFile ==
    /\ pc = "scan"
    /\ LET copies == ScanCopies(tops, scan_idx)
       IN /\ tops' = [fid \in DOMAIN tops \cup copies |->
                        IF fid \in copies THEN mods[scan_idx].recs[fid]
                        ELSE tops[fid]]
          /\ tops_from' = [fid \in DOMAIN tops \cup copies |->
                        IF fid \in copies THEN scan_idx ELSE tops_from[fid]]
          /\ staged_by' = staged_by \cup {<<fid, scan_idx>> : fid \in copies}
    /\ scan_idx' = scan_idx + 1
    /\ pc' = IF scan_idx = NMods THEN "build" ELSE "update"
    /\ UNCHANGED <<inputs, end_id_data, src_idx, isActive, id_data, srcClasses, skipcount,
                   kept, keep_calls, type_count, wrote>>
    /\ UNCHANGED others

\* ------------------------------------------------------------ buildPatch
\* GraphicsPatcher._inner_loop: the comparison of one attribute.
GraphicsDiffers(a, rec_attr, value) ==
    IF a \in StringAttrs
    THEN Lower(rec_attr) # Lower(value)
    ELSE IF a \in graphicsModelAttrs
         THEN \/ rec_attr = NoneVal \/ value = NoneVal
              \/ Lower(rec_attr) # Lower(value)
         ELSE rec_attr # value

\* _inner_loop: the first loop breaks, i.e. the record is to be patched.
InnerDiffers(record, d) ==
    IF cls = "GraphicsPatcher"
    THEN \E a \in DOMAIN d : GraphicsDiffers(a, record[a], d[a])
    ELSE \E a \in DOMAIN d : record[a] # d[a]

\* Mutant of SetAttrs: only one differing attribute is set.
SetAttrsOne(record, d) ==
    IF \E x \in DOMAIN d : record[x] # d[x]
    THEN LET a == CHOOSE x \in DOMAIN d : record[x] # d[x]
         IN [record EXCEPT ![a] = d[a]]
    ELSE record

\* _inner_loop: the second loop, loop_setattr(record, attr, value).
SetAttrs(record, d) ==
    [a \in DOMAIN record |-> IF a \in DOMAIN d THEN d[a] ELSE record[a]]

\* _inner_loop: the FormIDs of the patch that are patched and kept.
InnerKeeps(T, D) ==
    {fid \in DOMAIN T : fid \in DOMAIN D /\ InnerDiffers(T[fid], D[fid])}

\* buildPatch with self.isActive false: returns at once.
BuildPatchInactive ==
    /\ pc = "build" /\ ~isActive
    /\ pc' = "done"
    /\ UNCHANGED <<inputs, end_id_data, src_idx, scan_idx, isActive, id_data, srcClasses,
                   skipcount, tops, tops_from, staged_by, kept, keep_calls,
                   type_count, wrote>>
    /\ UNCHANGED others

\* A delta map that buildPatch leaves as it is.
id_data_kept(D) == D

\* self.id_data.clear() at the end of buildPatch.
id_data_clear(D) == EmptyMap

\* buildPatch: _inner_loop over the records of the patch, then
\* self.id_data.clear().
BuildPatch ==
    /\ pc = "build" /\ isActive
    /\ LET ks == IF "REC" \in srcClasses THEN InnerKeeps(tops, id_data)
                 ELSE {}
       IN /\ tops' = [fid \in DOMAIN tops |->
                        IF fid \in ks THEN SetAttrs(tops[fid], id_data[fid])
                        ELSE tops[fid]]
          /\ kept' = kept \cup ks
          /\ keep_calls' = [fid \in Fids |->
                        IF fid \in ks THEN keep_calls[fid] + 1
                        ELSE keep_calls[fid]]
          /\ type_count' = type_count + Cardinality(ks)
    /\ id_data' = id_data_clear(id_data)
    /\ pc' = "done"
    /\ UNCHANGED <<inputs, end_id_data, src_idx, scan_idx, isActive, srcClasses, skipcount,
                   tops_from, staged_by, wrote>>
    /\ UNCHANGED others

\* The category is run once more: a new patcher instance (__init__) over the
\* same load order, with a new, empty patch file; the results of the run
\* that has ended are recorded.
SecondRun ==
    /\ pc = "done" /\ runs = <<>>
    /\ runs' = <<[id_data |-> end_id_data, kept |-> kept,
                  values |-> [f \in kept |-> tops[f]]]>>
    /\ pc' = "initData"
    /\ src_idx' = 1
    /\ scan_idx' = 1
    /\ isActive' = (srcs # <<>> \/ has_csv_srcs)
    /\ id_data' = EmptyMap
    /\ srcClasses' = {}
    /\ skipcount' = [m \in Mods |-> 0]
    /\ tops' = EmptyMap
    /\ tops_from' = EmptyMap
    /\ staged_by' = {}
    /\ kept' = {}
    /\ keep_calls' = [f \in Fids |-> 0]
    /\ type_count' = 0
    /\ wrote' = {}
    /\ end_id_data' = EmptyMap
    /\ UNCHANGED <<inputs, cats, cat_idx, outcomes, aside>>

\* The build goes on with the next category, whether the category that ran
\* has completed or has failed: a new patcher of the next class over the
\* same load order and the same patch file.
NextCategory ==
    /\ pc \in {"done", "failed"} /\ cat_idx < Len(cats)
    /\ outcomes' = Append(outcomes, pc)
    /\ cat_idx' = cat_idx + 1
    /\ cls' = cats[cat_idx + 1]
    /\ UNCHANGED <<mods, csv, tops, tops_from, staged_by, kept, keep_calls,
                   runs, cats, aside>>
    /\ pc' = "initData"
    /\ src_idx' = 1
    /\ scan_idx' = 1
    /\ isActive' = (srcs' # <<>> \/ has_csv_srcs')
    /\ id_data' = EmptyMap
    /\ srcClasses' = {}
    /\ skipcount' = [m \in Mods |-> 0]
    /\ type_count' = 0
    /\ wrote' = {}
    /\ end_id_data' = EmptyMap

\* ------------------------------------------------------------ inputs
\* The values an attribute takes in the plugins of the load order.
AttrVals(c, a) ==
    CASE a \in {"eye", "keywords"} -> {NullFid, 1, AbsentMod}
      [] a \in {"hair", "hairLength", "eid"} -> {0}
      [] a = "iconPath" -> 0..(MaxVal + 1)
      [] a = "model" -> {NoneVal} \cup Vals
      [] OTHER -> Vals

\* The records of the class's record type.
Records(c) == {r \in [ClassAttrs(c) -> UNION {AttrVals(c, a) : a \in ClassAttrs(c)}] :
                  \A a \in ClassAttrs(c) : r[a] \in AttrVals(c, a)}

\* The record maps of a plugin: any subset of the FormIDs F, each with a
\* record of the set R.
RecMaps(F, R) == UNION {[H -> R] : H \in SUBSET F}

\* The sets of bash tags a plugin may carry.
TagSets(c) ==
    CASE c = "NpcFacePatcher" ->
            {{}, {"NPC.Eyes"}, {"NPC.FaceGen"}, {"NPC.Eyes", "NPC.FaceGen"},
             {"NpcFacesForceFullImport"}}
      [] c = "build" ->
            SUBSET (ClassTags("NamesPatcher") \cup ClassTags("GraphicsPatcher"))
      [] OTHER -> SUBSET ClassTags(c)

\* Plugin m of a load order: its masters load before it, in load order; the
\* first plugin is the game's master file, which is nobody's source.  RM1 are
\* the record maps of the first plugin, RM those of the others; with base,
\* every other plugin has the first plugin among its masters.
ModInfos(c, m, RM1, RM, base) ==
    {[masters |-> SortedSeq(ms), tags |-> t, recs |-> r] :
        ms \in {x \in SUBSET (1..(m - 1)) : base /\ m > 1 => 1 \in x},
        t \in (IF m = 1 THEN {{}} ELSE TagSets(c)),
        r \in (IF m = 1 THEN RM1 ELSE RM)}

RECURSIVE LoadOrders(_, _, _, _, _)
\* The load orders of n plugins.
LoadOrders(c, n, RM1, RM, base) ==
    IF n = 0 THEN {<<>>}
    ELSE {Append(lo, mi) : lo \in LoadOrders(c, n - 1, RM1, RM, base),
                           mi \in ModInfos(c, n, RM1, RM, base)}

\* The general load orders hold one FormID: the engine treats the records
\* of a plugin independently of each other.
OneFid == {1}

\* The general load orders of a class.
LoadOrdersOne(c) ==
    LoadOrders(c, NMods, RecMaps(OneFid, Records(c)),
               RecMaps(OneFid, Records(c)), FALSE)

\* The record of the game's master file in the load orders of LoadOrdersMany.
BaseRecord(c) ==
    [a \in ClassAttrs(c) |-> IF a \in {"eye", "hair"} THEN 1 ELSE 0]

\* The load orders with several records per plugin: the game's master file
\* holds every record and is a master of every other plugin, fggs_p is the
\* same in all plugins, and an eye may also be a FormID without owning file.
LoadOrdersMany(c) ==
    LoadOrders(c, NMods, {[f \in Fids |-> BaseRecord(c)]},
               RecMaps(Fids, {[BaseRecord(c) EXCEPT !["eye"] = e] :
                                e \in {NullFid, 1, AbsentMod, NoOwner}}),
               TRUE)

\* The results of the CSV parser (parsers.FullNames.type_id_name): rows
\* (editor id, name) per record type and FormID; "BOGU" is a record type the
\* game does not have.
CsvResults(c) ==
    IF c = "SpellsPatcher"
    THEN {EmptyMap} \cup
         {[r \in {"REC"} |-> stats] :
            stats \in UNION {[H -> {<<v>> : v \in Vals} \cup (Vals \X Vals)] :
                              H \in SUBSET Fids}}
    ELSE IF csv_parser(c)
    THEN UNION {[T -> UNION {[H -> {0} \X Vals] : H \in SUBSET Fids}] :
                    T \in SUBSET {"REC", "BOGU"}}
    ELSE {EmptyMap}

\* The attributes of the records in the load orders of LoadOrdersMismatch.
MismatchAttrs == {"eid", "full", "iconPath", "model"}

\* The load orders with a record whose type may differ between the plugins:
\* the record of the first plugin may lack the name or the model, and the
\* first plugin is a master of every other plugin.
LoadOrdersMismatch ==
    LoadOrders("build", NMods,
               RecMaps(OneFid, {[a \in D |-> 0] :
                    D \in {MismatchAttrs, MismatchAttrs \ {"full"},
                           MismatchAttrs \ {"model"}}}),
               RecMaps(OneFid, {[eid |-> 0, full |-> n, iconPath |-> 0,
                                 model |-> g] : n \in Vals, g \in Vals}),
               TRUE)

\* The state after the patcher's construction, for class c.
InitClass(c, los) ==
    /\ cls = c
    /\ mods \in los
    /\ csv \in CsvResults(c)
    /\ runs = <<>>
    /\ cats = <<c>> /\ cat_idx = 1 /\ outcomes = <<>>
    /\ IdleAside
    /\ pc = "initData"
    /\ src_idx = 1
    /\ scan_idx = 1
    /\ isActive = (srcs # <<>> \/ has_csv_srcs)
    /\ id_data = EmptyMap
    /\ srcClasses = {}
    /\ skipcount = [m \in Mods |-> 0]
    /\ tops = EmptyMap
    /\ tops_from = EmptyMap
    /\ staged_by = {}
    /\ kept = {}
    /\ keep_calls = [f \in Fids |-> 0]
    /\ type_count = 0
    /\ wrote = {}
    /\ end_id_data = EmptyMap

Init == InitClass("WeaponModsPatcher", LoadOrdersOne("WeaponModsPatcher"))
InitNames == InitClass("NamesPatcher", LoadOrdersOne("NamesPatcher"))
InitFace == InitClass("NpcFacePatcher", LoadOrdersOne("NpcFacePatcher"))
InitFaceMany == InitClass("NpcFacePatcher", LoadOrdersMany("NpcFacePatcher"))
InitGraphics == InitClass("GraphicsPatcher", LoadOrdersOne("GraphicsPatcher"))
InitKeywords == InitClass("KeywordsImporter", LoadOrdersOne("KeywordsImporter"))

\* The load orders of the SpellsPatcher: the game's master file holds the
\* record and is a master of every other plugin.
LoadOrdersSpells ==
    LoadOrders("SpellsPatcher", NMods,
               {[f \in OneFid |-> [cost |-> 0, level |-> 0]]},
               RecMaps(OneFid, Records("SpellsPatcher")), TRUE)

InitSpells == InitClass("SpellsPatcher", LoadOrdersSpells)

\* A build of two categories, the first of which is about to start.
InitRun ==
    /\ cats \in {<<"NamesPatcher", "GraphicsPatcher">>,
                  <<"GraphicsPatcher", "NamesPatcher">>}
    /\ cls = cats[1]
    /\ mods \in LoadOrdersMismatch
    /\ csv = EmptyMap
    /\ runs = <<>>
    /\ cat_idx = 1 /\ outcomes = <<>>
    /\ IdleAside
    /\ pc = "initData"
    /\ src_idx = 1
    /\ scan_idx = 1
    /\ isActive = (srcs # <<>> \/ has_csv_srcs)
    /\ id_data = EmptyMap
    /\ srcClasses = {}
    /\ skipcount = [m \in Mods |-> 0]
    /\ tops = EmptyMap
    /\ tops_from = EmptyMap
    /\ staged_by = {}
    /\ kept = {}
    /\ keep_calls = [f \in Fids |-> 0]
    /\ type_count = 0
    /\ wrote = {}
    /\ end_id_data = EmptyMap

Next ==
    \/ InitDataInactive
    \/ InitDataSrc
    \/ InitDataFinish
    \/ UpdatePatchRecords
    \/ ScanModFile
    \/ BuildPatchInactive
    \/ BuildPatch

\* The steps of a build of several categories.
NextRun == Next \/ InitDataRaise \/ NextCategory

\* The steps of a category that is run twice.
NextTwice == Next \/ SecondRun

Spec == Init /\ [][Next]_vars
SpecNames == InitNames /\ [][Next]_vars
SpecFace == InitFace /\ [][Next]_vars
SpecFaceMany == InitFaceMany /\ [][Next]_vars
SpecGraphics == InitGraphics /\ [][Next]_vars
SpecSpells == InitSpells /\ [][Next]_vars
SpecKeywords == InitKeywords /\ [][Next]_vars
SpecTwice == Init /\ [][NextTwice]_vars
SpecRun == InitRun /\ [][NextRun]_vars /\ WF_vars(NextRun)

\* No preserver runs.
IdlePreserver ==
    /\ cls = "" /\ mods = <<>> /\ csv = EmptyMap
    /\ runs = <<>> /\ cats = <<>> /\ cat_idx = 1 /\ outcomes = <<>>
    /\ pc = "idle" /\ src_idx = 1 /\ scan_idx = 1 /\ isActive = FALSE
    /\ id_data = EmptyMap /\ srcClasses = {} /\ skipcount = <<>>
    /\ tops = EmptyMap /\ tops_from = EmptyMap /\ staged_by = {}
    /\ kept = {} /\ keep_calls = <<>> /\ type_count = 0 /\ wrote = {}
    /\ end_id_data = EmptyMap

\* The variables of the preserver patchers.
preserverVars ==
    <<cls, mods, csv, pc, src_idx, scan_idx, isActive, id_data, srcClasses,
      skipcount, tops, tops_from, staged_by, kept, keep_calls, type_count,
      wrote, end_id_data, runs, cats, cat_idx, outcomes>>

\* -------------------------------------------------- CSV side channels
\* The fields of a row are strings; these stand for: a hexadecimal number
\* with the 0x prefix (two of them), the prefix followed by something that
\* is no hexadecimal number, a decimal number, a text, the empty string.
Tokens == {"0x1", "0x2", "0xZ", "1", "x", ""}

\* The result of a conversion that raises ValueError.
ParseError == -1

\* field[:2] == u'0x'
Has0x(t) == t \in {"0x1", "0x2", "0xZ"}

\* int(field[2:], 16) of a field that begins with 0x.
IntHexBody(t) ==
    CASE t = "0x1" -> 1 [] t = "0x2" -> 2 [] OTHER -> ParseError

\* int(field, 0): the base is taken from the prefix.
IntAuto(t) ==
    CASE t = "0x1" -> 1 [] t = "0x2" -> 2 [] t = "1" -> 1
      [] OTHER -> ParseError

\* int(field, 16): the 0x prefix is allowed.
Int16(t) ==
    CASE t = "0x1" -> 1 [] t = "0x2" -> 2 [] t = "1" -> 1
      [] OTHER -> ParseError

\* int(field): a decimal number.
Int10(t) == IF t = "1" THEN 1 ELSE ParseError

\* d[k] = v
DictSet(d, k, v) == [x \in DOMAIN d \cup {k} |-> IF x = k THEN v ELSE d[x]]

\* CoblExhaustion.readFromText, the body of the loop for one row: the new
\* id_exhaustion; IndexError and ValueError are caught and the row passed.
CoblRow(t, fields) ==
    IF Len(fields) < 2 THEN t
    ELSE IF ~Has0x(fields[2]) THEN t
    ELSE IF Len(fields) < 4 THEN t
    ELSE IF IntHexBody(fields[2]) = ParseError THEN t
    ELSE IF Int10(fields[4]) = ParseError THEN t
    ELSE DictSet(t, IntHexBody(fields[2]), Int10(fields[4]))

\* MFactMarker.readFromText: the row makes int(objectIndex, 0) raise.
MFactRaises(fields) ==
    /\ Len(fields) >= 6 /\ Has0x(fields[2])
    /\ IntAuto(fields[2]) = ParseError

\* MFactMarker.readFromText, the body of the loop for one row that does not
\* raise: the new id_info.
MFactRow(t, fields) ==
    IF Len(fields) < 6 \/ ~Has0x(fields[2]) THEN t
    ELSE IF fields[5] = "" THEN t
    ELSE DictSet(t, IntAuto(fields[2]),
                 <<fields[5], IF fields[6] = "" THEN "Member" ELSE fields[6]>>)

\* UpdateReferences.readFromText: the row makes int(oldObj, 16) or
\* int(newObj, 16) raise.
UpdateReferencesRaises(fields) ==
    /\ Len(fields) >= 7 /\ Has0x(fields[3]) /\ Has0x(fields[7])
    /\ Int16(fields[3]) = ParseError \/ Int16(fields[7]) = ParseError

\* UpdateReferences.readFromText, the body of the loop for one row that
\* does not raise: the new old_new.
UpdateReferencesRow(t, fields) ==
    IF Len(fields) < 7 \/ ~Has0x(fields[3]) \/ ~Has0x(fields[7]) THEN t
    ELSE DictSet(t, Int16(fields[3]), Int16(fields[7]))

\* CoblExhaustion.readFromText: one iteration of "for fields in ins".
CoblReadRow ==
    /\ rd_pc = "read" /\ reader = "CoblExhaustion" /\ row_idx <= Len(rows)
    /\ table' = CoblRow(table, rows[row_idx])
    /\ row_idx' = row_idx + 1
    /\ UNCHANGED <<reader, rows, rd_pc, preserverVars, tweakVars, raceVars,
                   laterVars>>

\* MFactMarker.readFromText: one iteration of "for fields in ins"; a
\* ValueError leaves readFromText and initData, which handles OSError only.
MFactReadRow ==
    /\ rd_pc = "read" /\ reader = "MFactMarker" /\ row_idx <= Len(rows)
    /\ IF MFactRaises(rows[row_idx])
       THEN rd_pc' = "raised" /\ UNCHANGED <<table, row_idx>>
       ELSE /\ table' = MFactRow(table, rows[row_idx])
            /\ row_idx' = row_idx + 1
            /\ UNCHANGED rd_pc
    /\ UNCHANGED <<reader, rows, preserverVars, tweakVars, raceVars,
                   laterVars>>

\* UpdateReferences.readFromText: one iteration of "for fields in ins"; a
\* ValueError leaves readFromText and initData, which handles OSError only.
UpdateReferencesReadRow ==
    /\ rd_pc = "read" /\ reader = "UpdateReferences" /\ row_idx <= Len(rows)
    /\ IF UpdateReferencesRaises(rows[row_idx])
       THEN rd_pc' = "raised" /\ UNCHANGED <<table, row_idx>>
       ELSE /\ table' = UpdateReferencesRow(table, rows[row_idx])
            /\ row_idx' = row_idx + 1
            /\ UNCHANGED rd_pc
    /\ UNCHANGED <<reader, rows, preserverVars, tweakVars, raceVars,
                   laterVars>>

\* readFromText: the file has no more rows.
ReadEnd ==
    /\ rd_pc = "read" /\ row_idx > Len(rows)
    /\ rd_pc' = "end"
    /\ UNCHANGED <<reader, rows, row_idx, table, preserverVars, tweakVars, raceVars,
                   laterVars>>

\* The number of rows of a CSV file.
MaxRows == 2

\* The beginnings of a row, the whole row included.
Prefixes(row) == {SubSeq(row, 1, n) : n \in 0..Len(row)}

\* The rows of a file of the reader r: mod, object index, editor id and
\* time for CoblExhaustion; mod, object index, two more columns, morph name
\* and rank name for MFactMarker; a first column, then old mod, old object,
\* the editor ids, new mod and new object for UpdateReferences; and rows
\* that end early.
RowsOf(r) ==
    CASE r = "CoblExhaustion" ->
            UNION {Prefixes(<<"m", o, "e", t>>) : o \in Tokens, t \in Tokens}
      [] r = "MFactMarker" ->
            UNION {Prefixes(<<"m", o, "e", "c", a, b>>) :
                      o \in Tokens, a \in {"", "x"}, b \in {"", "x"}}
      [] OTHER ->
            UNION {Prefixes(<<"", "m", o, "e", "f", "n", q>>) :
                      o \in Tokens \ {""}, q \in Tokens \ {""}}

\* The CSV files of at most MaxRows rows.
Files(r) == UNION {[1..n -> RowsOf(r)] : n \in 0..MaxRows}

\* readFromText is about to read a file.
InitReader ==
    /\ IdlePreserver /\ IdleTweaks /\ IdleRaces /\ IdleLater
    /\ reader \in {"CoblExhaustion", "MFactMarker", "UpdateReferences"}
    /\ rows \in Files(reader)
    /\ row_idx = 1
    /\ table = EmptyMap
    /\ rd_pc = "read"

NextReader ==
    \/ CoblReadRow
    \/ MFactReadRow
    \/ UpdateReferencesReadRow
    \/ ReadEnd

SpecReader == InitReader /\ [][NextReader]_vars

\* ------------------------------------------------------ assorted tweaks
\* The tweaks of the AssortedTweaker that are modelled, in the order of the
\* list that tweak_instances sorts.
AssortedTweaks ==
    <<"AssortedTweak_ArmorShows_Amulets", "AssortedTweak_DarnBooks",
      "AssortedTweak_PotionWeight", "AssortedTweak_PotionWeightMinimum">>

\* tweak_name of a tweak, as the sequence of its character codes.
tweak_name(t) ==
    CASE t = "AssortedTweak_ArmorShows_Amulets" ->
            <<65, 114, 109, 111, 114, 32, 83, 104, 111, 119, 115, 32, 65, 109, 117, 108, 101, 116, 115>>
      [] t = "AssortedTweak_DarnBooks" ->
            <<68, 97, 114, 78, 105, 102, 105, 101, 100, 32, 66, 111, 111, 107, 115>>
      [] t = "AssortedTweak_PotionWeight" ->
            <<82, 101, 119, 101, 105, 103, 104, 58, 32, 80, 111, 116, 105, 111, 110, 115, 32, 40, 77, 97, 120, 105, 109, 117, 109, 41>>
      [] OTHER ->
            <<82, 101, 119, 101, 105, 103, 104, 58, 32, 80, 111, 116, 105, 111, 110, 115, 32, 40, 77, 105, 110, 105, 109, 117, 109, 41>>

\* unicode.lower() of a string of ASCII characters.
str_lower(str) ==
    [i \in DOMAIN str |->
        IF str[i] >= 65 /\ str[i] <= 90 THEN str[i] + 32 ELSE str[i]]

\* a < b for two strings: the comparison of the first differing character,
\* a proper beginning being the smaller.
StrLess(a, b) ==
    \E i \in 1..(Len(b)) :
        /\ \A j \in 1..(i - 1) : j <= Len(a) /\ a[j] = b[j]
        /\ (i > Len(a) \/ (i <= Len(a) /\ a[i] < b[i]))

\* The key of tweak_instances: lambda a: a.tweak_name.lower()
SortKey(t) == str_lower(tweak_name(t))

\* sorted(list, key): a stable sort; reversed, from the greatest key down.
Sorted(list, reversed) ==
    LET before(i, j) ==
            IF reversed
            THEN StrLess(SortKey(list[j]), SortKey(list[i]))
            ELSE StrLess(SortKey(list[i]), SortKey(list[j]))
        rank(i) == 1 + Cardinality({j \in 1..Len(list) :
                        before(j, i) \/ (~before(i, j) /\ j < i)})
    IN [k \in 1..Len(list) |->
          list[CHOOSE i \in 1..Len(list) : rank(i) = k]]

\* Mutant of tweak_instances: the tweaks sorted from the greatest name down.
tweak_instances_descending == Sorted(AssortedTweaks, TRUE)

\* AssortedTweaker.tweak_instances
tweak_instances == Sorted(AssortedTweaks, FALSE)

\* self.enabled_tweaks of the tweaker: the enabled ones of tweak_instances,
\* in the order of tweak_instances.
enabled_tweaks == SelectSeq(tweak_instances, LAMBDA t : t \in tw_on)

\* tweak_read_classes[0] of a tweak.
tweak_read_classes(t) ==
    CASE t = "AssortedTweak_ArmorShows_Amulets" -> "ARMO"
      [] t = "AssortedTweak_DarnBooks" -> "BOOK"
      [] OTHER -> "ALCH"

\* Weights are in units of 1/20: 1.0, the weight from which on a potion is
\* no longer capped.
StandardLimit == 20

\* bolt.floats_equal on weights that are multiples of 1/20.
floats_equal(a, b) == a = b

\* The most bold markers of a book text.
MaxBold == 2

\* _darnify: the text it returns.  A text is [kind, bold]: "head" begins
\* with a == heading == line and has bold markers (__, ** or ~~), which
\* become font tags: "darn", with font tags of face 1 and 3; "div" has a
\* div tag and no font tag and gets a font tag in front: "face3"; in "face1"
\* and "darn" the font tags of face 1 are replaced: "face3"; "plain" has
\* none of these.
darnify_text(text) ==
    CASE text.kind = "head" -> [kind |-> "darn", bold |-> 0]
      [] text.kind \in {"div", "face1", "darn"} -> [kind |-> "face3", bold |-> 0]
      [] OTHER -> text

\* _darnify: self.inBold when it returns: set to False at the start, and
\* negated by _replace_bold for every bold marker of a text with a heading.
darnify_inBold(text) ==
    IF text.kind = "head" /\ text.bold % 2 = 1 THEN "True" ELSE "False"

\* AAssortedTweak_DarnBooks.wants_record: _darnify is called.
darnify_called(record) == record.text.kind # "" /\ ~record.enchantment

\* Mutant of PotionWeight_wants: the weight is not compared with the cap.
PotionWeight_wants_uncompared(record) ==
    /\ record.weight < StandardLimit
    /\ ~record.obme
    /\ ~floats_equal(record.weight, chosen.cap)

\* AAssortedTweak_PotionWeight.wants_record
PotionWeight_wants(record) ==
    /\ chosen.cap < record.weight /\ record.weight < StandardLimit
    /\ ~record.obme
    /\ ~floats_equal(record.weight, chosen.cap)

\* wants_record of tweak t.
wants_record(t, record) ==
    CASE t = "AssortedTweak_ArmorShows_Amulets" ->
            record.hides /\ ~record.notPlayable
      [] t = "AssortedTweak_DarnBooks" ->
            /\ record.text.kind # "" /\ ~record.enchantment
            /\ record.text # darnify_text(record.text)
      [] t = "AssortedTweak_PotionWeight" ->
            PotionWeight_wants(record) /\ ~record.obme /\ ~record.seff
      [] OTHER ->
            /\ record.weight < chosen.floor
            /\ ~floats_equal(record.weight, chosen.floor)

\* buildPatch of tweak t: the record after the body of "if
\* self.wants_record(record)".
TweakApplied(t, record) ==
    CASE t = "AssortedTweak_ArmorShows_Amulets" ->
            [record EXCEPT !.hides = FALSE]
      [] t = "AssortedTweak_DarnBooks" ->
            [record EXCEPT !.text = darnify_text(record.text)]
      [] t = "AssortedTweak_PotionWeight" ->
            [record EXCEPT !.weight = chosen.cap]
      [] OTHER ->
            [record EXCEPT !.weight = chosen.floor]

\* The tweak whose buildPatch runs, and its records in the patch.
CurTweak == enabled_tweaks[tw_idx]
CurRecords == patch[tweak_read_classes(CurTweak)]

\* MultiTweaker.buildPatch with self.isActive false: returns at once.
TweakerInactive ==
    /\ tw_pc = "build" /\ ~tw_isActive
    /\ tw_pc' = "done"
    /\ UNCHANGED <<tw_on, chosen, patch0, patch, tkept, tw_isActive, tw_idx,
                   rec_idx, wanted, inBold, preserverVars, readerVars, raceVars,
                   laterVars>>

\* MultiTweaker.buildPatch: "for tweak in self.enabled_tweaks" begins.
TweakerBuildPatch ==
    /\ tw_pc = "build" /\ tw_isActive
    /\ tw_idx' = 1 /\ rec_idx' = 1
    /\ tw_pc' = "wants"
    /\ UNCHANGED <<tw_on, chosen, patch0, patch, tkept, tw_isActive, wanted,
                   inBold, preserverVars, readerVars, raceVars,
                   laterVars>>

\* A tweak's buildPatch: self.wants_record(record) is evaluated for the
\* next record.
WantsRecord ==
    /\ tw_pc = "wants" /\ tw_idx <= Len(enabled_tweaks)
    /\ rec_idx <= Len(CurRecords)
    /\ wanted' = wants_record(CurTweak, CurRecords[rec_idx])
    /\ inBold' = IF /\ CurTweak = "AssortedTweak_DarnBooks"
                    /\ darnify_called(CurRecords[rec_idx])
                 THEN darnify_inBold(CurRecords[rec_idx].text)
                 ELSE inBold
    /\ tw_pc' = "apply"
    /\ UNCHANGED <<tw_on, chosen, patch0, patch, tkept, tw_isActive, tw_idx,
                   rec_idx, preserverVars, readerVars, raceVars,
                   laterVars>>

\* A tweak's buildPatch: the body of "if self.wants_record(record)" for
\* the record, and the step to the next record.
ApplyRecord ==
    /\ tw_pc = "apply"
    /\ IF wanted
       THEN /\ patch' = [patch EXCEPT ![tweak_read_classes(CurTweak)][rec_idx] =
                            TweakApplied(CurTweak, @)]
            /\ tkept' = tkept \cup {<<tweak_read_classes(CurTweak), rec_idx>>}
            /\ inBold' = IF CurTweak = "AssortedTweak_DarnBooks"
                         THEN darnify_inBold(CurRecords[rec_idx].text)
                         ELSE inBold
       ELSE UNCHANGED <<patch, tkept, inBold>>
    /\ rec_idx' = rec_idx + 1
    /\ tw_pc' = "wants"
    /\ UNCHANGED <<tw_on, chosen, patch0, tw_isActive, tw_idx, wanted,
                   preserverVars, readerVars, raceVars,
                   laterVars>>

\* A tweak's buildPatch has gone through its records: it logs and returns,
\* and the tweaker's loop goes on with the next enabled tweak, if any.
TweakPassEnd ==
    /\ tw_pc = "wants" /\ tw_idx <= Len(enabled_tweaks)
    /\ rec_idx > Len(CurRecords)
    /\ tw_idx' = tw_idx + 1 /\ rec_idx' = 1
    /\ tw_pc' = IF tw_idx = Len(enabled_tweaks) THEN "done" ELSE "wants"
    /\ UNCHANGED <<tw_on, chosen, patch0, patch, tkept, tw_isActive, wanted,
                   inBold, preserverVars, readerVars, raceVars,
                   laterVars>>

\* The most potions in the patch.
NPotions == 2

\* The weights of the staged potions, in 1/20: 0.05, 0.1, 0.5, 1.0, 1.5.
Weights == {1, 2, 10, 20, 30}

\* The chosen maximum weights: 0.1 and 0.6.
Caps == {2, 12}

\* The chosen minimum weights: 0.2 (a custom value) and 1.
Floors == {4, 20}

\* The potions (ALCH records): weight, obme_record_version is not None, and
\* (SEFF, 0) is among the effects.
Potions == [weight : Weights, obme : BOOLEAN, seff : BOOLEAN]

\* The sequences of at most n elements of S.
SeqsUpTo(S, n) == UNION {[1..k -> S] : k \in 0..n}

\* The book texts of the staged books.
Texts ==
    {[kind |-> k, bold |-> 0] : k \in {"", "plain", "div"}} \cup
    {[kind |-> "head", bold |-> b] : b \in 0..MaxBold}

\* The books (BOOK records) and the armor pieces (ARMO records).
Books == [text : Texts, enchantment : BOOLEAN]
Armors == [hides : BOOLEAN, notPlayable : BOOLEAN]

\* The tweaker's buildPatch is about to run on a patch with the records
\* P, with the tweaks of one of the sets in T enabled.
InitTweaker(T, P) ==
    /\ IdlePreserver /\ IdleReader /\ IdleRaces /\ IdleLater
    /\ tw_on \in T
    /\ chosen \in [cap : Caps, floor : Floors]
    /\ patch0 \in P
    /\ patch = patch0
    /\ tkept = {}
    /\ tw_isActive = (enabled_tweaks # <<>>)
    /\ tw_idx = 1 /\ rec_idx = 1
    /\ tw_pc = "build"
    /\ wanted = FALSE
    /\ inBold = "unset"

\* Potions in the patch, and the potion tweaks.
InitPotions ==
    InitTweaker(SUBSET {"AssortedTweak_PotionWeight",
                        "AssortedTweak_PotionWeightMinimum"},
                [ALCH : SeqsUpTo(Potions, NPotions), BOOK : {<<>>},
                 ARMO : {<<>>}])

\* A book, an armor piece and a potion in the patch, and all tweaks.
InitAssorted ==
    InitTweaker(SUBSET {AssortedTweaks[i] : i \in 1..Len(AssortedTweaks)},
                [ALCH : SeqsUpTo({[weight |-> 10, obme |-> FALSE,
                                   seff |-> FALSE]}, 1),
                 BOOK : SeqsUpTo(Books, 1), ARMO : SeqsUpTo(Armors, 1)])

NextTweaks ==
    \/ TweakerInactive
    \/ TweakerBuildPatch
    \/ WantsRecord
    \/ ApplyRecord
    \/ TweakPassEnd

SpecPotions == InitPotions /\ [][NextTweaks]_vars
SpecAssorted == InitAssorted /\ [][NextTweaks]_vars

\* --------------------------------------------- the further patchers' frames
\* All variables but scanVars.
besideScan ==
    <<preserverVars, readerVars, tweakVars, raceVars,
        orderVars, randomVars, coblVars, cellVars, enchVars, mergeVars,
        importVars>>

\* Nothing but scanVars is in use.
IdleBesideScan ==
    /\ IdlePreserver /\ IdleReader /\ IdleTweaks /\ IdleRaces
    /\ IdleOrder
    /\ IdleRandom
    /\ IdleCobl
    /\ IdleCell
    /\ IdleEnch
    /\ IdleMerge
    /\ IdleImport

\* All variables but orderVars.
besideOrder ==
    <<preserverVars, readerVars, tweakVars, raceVars,
        scanVars, randomVars, coblVars, cellVars, enchVars, mergeVars,
        importVars>>

\* Nothing but orderVars is in use.
IdleBesideOrder ==
    /\ IdlePreserver /\ IdleReader /\ IdleTweaks /\ IdleRaces
    /\ IdleScan
    /\ IdleRandom
    /\ IdleCobl
    /\ IdleCell
    /\ IdleEnch
    /\ IdleMerge
    /\ IdleImport

\* All variables but randomVars.
besideRandom ==
    <<preserverVars, readerVars, tweakVars, raceVars,
        scanVars, orderVars, coblVars, cellVars, enchVars, mergeVars,
        importVars>>

\* Nothing but randomVars is in use.
IdleBesideRandom ==
    /\ IdlePreserver /\ IdleReader /\ IdleTweaks /\ IdleRaces
    /\ IdleScan
    /\ IdleOrder
    /\ IdleCobl
    /\ IdleCell
    /\ IdleEnch
    /\ IdleMerge
    /\ IdleImport

\* All variables but coblVars.
besideCobl ==
    <<preserverVars, readerVars, tweakVars, raceVars,
        scanVars, orderVars, randomVars, cellVars, enchVars, mergeVars,
        importVars>>

\* Nothing but coblVars is in use.
IdleBesideCobl ==
    /\ IdlePreserver /\ IdleReader /\ IdleTweaks /\ IdleRaces
    /\ IdleScan
    /\ IdleOrder
    /\ IdleRandom
    /\ IdleCell
    /\ IdleEnch
    /\ IdleMerge
    /\ IdleImport

\* All variables but cellVars.
besideCell ==
    <<preserverVars, readerVars, tweakVars, raceVars,
        scanVars, orderVars, randomVars, coblVars, enchVars, mergeVars,
        importVars>>

\* Nothing but cellVars is in use.
IdleBesideCell ==
    /\ IdlePreserver /\ IdleReader /\ IdleTweaks /\ IdleRaces
    /\ IdleScan
    /\ IdleOrder
    /\ IdleRandom
    /\ IdleCobl
    /\ IdleEnch
    /\ IdleMerge
    /\ IdleImport

\* All variables but enchVars.
besideEnch ==
    <<preserverVars, readerVars, tweakVars, raceVars,
        scanVars, orderVars, randomVars, coblVars, cellVars, mergeVars,
        importVars>>

\* Nothing but enchVars is in use.
IdleBesideEnch ==
    /\ IdlePreserver /\ IdleReader /\ IdleTweaks /\ IdleRaces
    /\ IdleScan
    /\ IdleOrder
    /\ IdleRandom
    /\ IdleCobl
    /\ IdleCell
    /\ IdleMerge
    /\ IdleImport

\* All variables but mergeVars.
besideMerge ==
    <<preserverVars, readerVars, tweakVars, raceVars,
        scanVars, orderVars, randomVars, coblVars, cellVars, enchVars,
        importVars>>

\* Nothing but mergeVars is in use.
IdleBesideMerge ==
    /\ IdlePreserver /\ IdleReader /\ IdleTweaks /\ IdleRaces
    /\ IdleScan
    /\ IdleOrder
    /\ IdleRandom
    /\ IdleCobl
    /\ IdleCell
    /\ IdleEnch
    /\ IdleImport

\* All variables but importVars.
besideImport ==
    <<preserverVars, readerVars, tweakVars, raceVars,
        scanVars, orderVars, randomVars, coblVars, cellVars, enchVars,
        mergeVars>>

\* Nothing but importVars is in use.
IdleBesideImport ==
    /\ IdlePreserver /\ IdleReader /\ IdleTweaks /\ IdleRaces
    /\ IdleScan
    /\ IdleOrder
    /\ IdleRandom
    /\ IdleCobl
    /\ IdleCell
    /\ IdleEnch
    /\ IdleMerge

\* --------------------------------------------------- end of the frames

\* --------------------------------------------------------- race patcher
\* The (right, left) eye mesh pairs, as the lower-case paths that eye_mesh
\* holds: the pair of the vanilla blue eye, the pair of the argonian eye,
\* and two more.
Meshes == {"blue", "argonian", "a", "b"}

\* The mesh paths of a race: those, and one that is not in lower case.
ModPaths == Meshes \cup {"A"}

\* modPath.lower()
path_lower(path) == IF path = "A" THEN "a" ELSE path

\* eye_mesh[(_main_master, 0x27308)] and eye_mesh[(_main_master, 0x3e91e)]
blueEyeMesh == "blue"
argonianEyeMesh == "argonian"

\* race.flags.playable or race.fid == (_main_master, 0x038010)
IsPlayable(race) == race.playable \/ race.exception

\* The eye mesh filtering passes the race by: it has no eyes, lacks an eye
\* model, or its editor id matches ^117[a-zA-Z].
FilterSkips(race) == race.eyes = <<>> \/ ~race.models \/ race.eid117

\* mesh_eye: the eyes of the race that have a mesh, by mesh pair, each list
\* in the order of race.eyes.
mesh_eye(race) ==
    [m \in {eye_mesh[race.eyes[i]] :
                i \in {j \in DOMAIN race.eyes : race.eyes[j] \in DOMAIN eye_mesh}} |->
        SelectSeq(race.eyes,
                  LAMBDA e : e \in DOMAIN eye_mesh /\ eye_mesh[e] = m)]

\* The values maxEyesMesh may have: the first of the mesh pairs sorted by
\* their number of eyes, the greatest first; pairs of equal number stay in
\* the order of the dict's keys, which is any order; blueEyeMesh if there
\* is no pair.
maxEyesMeshes(race) ==
    LET me == mesh_eye(race)
    IN IF DOMAIN me = {} THEN {blueEyeMesh}
       ELSE {m \in DOMAIN me :
                \A n \in DOMAIN me : Len(me[n]) <= Len(me[m])}

\* Mutant of ChosenMesh: the most popular mesh pair always.
ChosenMeshPopular(race, maxEyesMesh) == maxEyesMesh

\* The mesh pair chosen for a playable race with several mesh pairs: the
\* blue one if present, unless the race has the argonian one; else the
\* argonian one if present; else the current one if present; else the
\* most popular.
ChosenMesh(race, maxEyesMesh) ==
    LET me == mesh_eye(race)
        currentMesh == path_lower(race.mesh)
    IN IF blueEyeMesh \in DOMAIN me /\ currentMesh # argonianEyeMesh
       THEN blueEyeMesh
       ELSE IF argonianEyeMesh \in DOMAIN me THEN argonianEyeMesh
       ELSE IF currentMesh \in DOMAIN me THEN currentMesh
       ELSE maxEyesMesh

\* The third case of the choice: "elif currentMesh in mesh_eye", where the
\* mesh paths of the race are left as they are.
KeepsCurrentPath(race) ==
    LET me == mesh_eye(race)
        currentMesh == path_lower(race.mesh)
    IN /\ ~(blueEyeMesh \in DOMAIN me /\ currentMesh # argonianEyeMesh)
       /\ argonianEyeMesh \notin DOMAIN me
       /\ currentMesh \in DOMAIN me

\* Mutant of PrunesEyes: the eyes of every race with several mesh pairs are
\* pruned.
PrunesEyesAlways(race) == Cardinality(DOMAIN mesh_eye(race)) > 1

\* "if len(mesh_eye) > 1 and (race.flags.playable or race.fid == ...)"
PrunesEyes(race) ==
    Cardinality(DOMAIN mesh_eye(race)) > 1 /\ IsPlayable(race)

\* The eye mesh filtering of one race: the race afterwards.
Filtered(race, maxEyesMesh) ==
    LET me == mesh_eye(race)
        currentMesh == path_lower(race.mesh)
        chosenMesh == ChosenMesh(race, maxEyesMesh)
    IN IF FilterSkips(race) THEN race
       ELSE IF PrunesEyes(race)
       THEN [race EXCEPT
               !.mesh = IF KeepsCurrentPath(race) THEN @ ELSE chosenMesh,
               !.eyes = me[chosenMesh]]
       ELSE IF Cardinality(DOMAIN me) = 1 /\ currentMesh # maxEyesMesh
       THEN [race EXCEPT !.mesh = maxEyesMesh]
       ELSE race

\* The eye mesh filtering of one race: raceChanged.
raceChanged(race, maxEyesMesh) ==
    /\ ~FilterSkips(race)
    /\ \/ PrunesEyes(race)
       \/ /\ Cardinality(DOMAIN mesh_eye(race)) = 1
          /\ path_lower(race.mesh) # maxEyesMesh

\* The hairs of the patch's HAIR records that are not flagged notMale, or
\* not flagged notFemale.
maleHairs == {h \in DOMAIN hair_flags : ~hair_flags[h].notMale}
femaleHairs == {h \in DOMAIN hair_flags : ~hair_flags[h].notFemale}

\* list.sort(key=names.get): the names are in the order of the FormIDs.
SortByName(list) == SortedSeq({list[i] : i \in DOMAIN list})

\* final_eyes[race.fid]: the vanilla eyes of the race that are in
\* race.eyes, else the first eye of race.eyes.
FinalEyesOf(i) ==
    LET v == SelectSeq(IF i \in DOMAIN vanilla_eyes THEN vanilla_eyes[i]
                       ELSE <<>>,
                       LAMBDA x : \E k \in DOMAIN races[i].eyes :
                                      races[i].eyes[k] = x)
    IN IF v # <<>> THEN v ELSE <<races[i].eyes[1]>>

\* The NPC is passed by: it is the player, or it has a name that
\* reProcess does not match and its race is (_main_master, 0x038010).
NpcSkipped(npc) ==
    \/ npc.player
    \/ /\ npc.full # "None" /\ npc.full # "dremora"
       /\ npc.race \in DOMAIN races /\ races[npc.race].exception

\* raceEyes of an NPC; the empty list stands for None.
RaceEyesOf(npc) ==
    IF npc.race \in DOMAIN final_eyes THEN final_eyes[npc.race] ELSE <<>>

\* Mutant of RaceHairOf: the hairs for males, whatever the sex of the NPC.
RaceHairOfMale(npc) ==
    IF npc.race \in DOMAIN defaultHair
    THEN defaultHair[npc.race].male
    ELSE <<>>

\* raceHair of an NPC; the empty list stands for None.
RaceHairOf(npc) ==
    IF npc.race \in DOMAIN defaultHair
    THEN (IF npc.female THEN defaultHair[npc.race].female
          ELSE defaultHair[npc.race].male)
    ELSE <<>>

\* The elements of a list.
Range(list) == {list[i] : i \in DOMAIN list}

\* "if 'RACE' not in patchFile.tops: return"
RaceNoTop ==
    /\ rc_pc = "build" /\ races = <<>>
    /\ rc_pc' = "done"
    /\ UNCHANGED <<races0, races, eye_mesh, vanilla_eyes, hair_flags, npcs0,
                   npcs, rkept, final_eyes, defaultHair, rc_idx,
                   preserverVars, readerVars, tweakVars,
                   laterVars>>

\* buildPatch, "Import race info": self.raceData is empty, no race changes.
RaceBuildPatch ==
    /\ rc_pc = "build" /\ races # <<>>
    /\ rc_pc' = "filter" /\ rc_idx' = 1
    /\ UNCHANGED <<races0, races, eye_mesh, vanilla_eyes, hair_flags, npcs0,
                   npcs, rkept, final_eyes, defaultHair,
                   preserverVars, readerVars, tweakVars,
                   laterVars>>

\* buildPatch, "Eye Mesh filtering": one iteration of the loop over the
\* races.
FilterRace ==
    /\ rc_pc = "filter"
    /\ \E maxEyesMesh \in maxEyesMeshes(races[rc_idx]) :
          /\ races' = [races EXCEPT
                          ![rc_idx] = Filtered(races[rc_idx], maxEyesMesh)]
          /\ rkept' = IF raceChanged(races[rc_idx], maxEyesMesh)
                      THEN rkept \cup {<<"RACE", rc_idx>>} ELSE rkept
    /\ IF rc_idx = Len(races)
       THEN rc_pc' = "sort" /\ rc_idx' = 1
       ELSE rc_pc' = "filter" /\ rc_idx' = rc_idx + 1
    /\ UNCHANGED <<races0, eye_mesh, vanilla_eyes, hair_flags, npcs0, npcs,
                   final_eyes, defaultHair,
                   preserverVars, readerVars, tweakVars,
                   laterVars>>

\* buildPatch, "Sort Eyes/Hair": one iteration of the loop over the races.
SortRace ==
    /\ rc_pc = "sort"
    /\ IF IsPlayable(races[rc_idx]) /\ races[rc_idx].eyes # <<>>
       THEN /\ final_eyes' = DictSet(final_eyes, rc_idx, FinalEyesOf(rc_idx))
            /\ defaultHair' = DictSet(defaultHair, rc_idx,
                   [male |-> SelectSeq(races[rc_idx].hairs,
                                       LAMBDA x : x \in maleHairs),
                    female |-> SelectSeq(races[rc_idx].hairs,
                                         LAMBDA x : x \in femaleHairs)])
            /\ races' = [races EXCEPT
                            ![rc_idx].hairs = SortByName(@),
                            ![rc_idx].eyes = SortByName(@)]
            /\ rkept' = rkept \cup {<<"RACE", rc_idx>>}
       ELSE UNCHANGED <<final_eyes, defaultHair, races, rkept>>
    /\ IF rc_idx < Len(races)
       THEN rc_pc' = "sort" /\ rc_idx' = rc_idx + 1
       ELSE /\ rc_pc' = IF npcs = <<>> THEN "done" ELSE "npc"
            /\ rc_idx' = 1
    /\ UNCHANGED <<races0, eye_mesh, vanilla_eyes, hair_flags, npcs0, npcs,
                   preserverVars, readerVars, tweakVars,
                   laterVars>>

\* buildPatch, "Npcs with unassigned eyes/hair": one iteration of the loop
\* over the NPCs; random.choice picks any element of the list, and
\* random.random() any hair length.
AssignNpc ==
    /\ rc_pc = "npc"
    /\ LET npc == npcs[rc_idx]
           setEye == ~NpcSkipped(npc) /\ npc.eye = 0 /\ RaceEyesOf(npc) # <<>>
           setHair == ~NpcSkipped(npc) /\ npc.hair = 0
                        /\ RaceHairOf(npc) # <<>>
           setLength == ~NpcSkipped(npc) /\ npc.hairLength = 0
       IN /\ \E e \in (IF setEye THEN Range(RaceEyesOf(npc)) ELSE {npc.eye}),
               h \in (IF setHair THEN Range(RaceHairOf(npc)) ELSE {npc.hair}),
               l \in (IF setLength THEN {0, 1} ELSE {npc.hairLength}) :
                npcs' = [npcs EXCEPT ![rc_idx] =
                            [npc EXCEPT !.eye = e, !.hair = h,
                                        !.hairLength = l]]
          /\ rkept' = IF setEye \/ setHair \/ setLength
                      THEN rkept \cup {<<"NPC_", rc_idx>>} ELSE rkept
    /\ IF rc_idx < Len(npcs)
       THEN rc_pc' = "npc" /\ rc_idx' = rc_idx + 1
       ELSE rc_pc' = "done" /\ rc_idx' = 1
    /\ UNCHANGED <<races0, races, eye_mesh, vanilla_eyes, hair_flags, npcs0,
                   final_eyes, defaultHair,
                   preserverVars, readerVars, tweakVars,
                   laterVars>>

\* The most eyes of a race.
NEyes == 4

\* The partial maps from the first n eyes to the mesh pairs: an eye may be
\* without a mesh.
EyeMeshes(n, M) == UNION {[S -> M] : S \in SUBSET (1..n)}

\* A race record: its eyes and hairs, the playable flag, whether it is the
\* race (_main_master, 0x038010), whether it has both eye models, whether
\* its editor id matches ^117[a-zA-Z], and the path of its eye models.
RaceOf(eyes, hairs, playable, exception, models, eid117, mesh) ==
    [eyes |-> eyes, hairs |-> hairs, playable |-> playable,
     exception |-> exception, models |-> models, eid117 |-> eid117,
     mesh |-> mesh]

\* An NPC of race 1 without eye, hair and hair length.
BareNpc ==
    [eye |-> 0, hair |-> 0, hairLength |-> 0, female |-> FALSE,
     player |-> FALSE, full |-> "None", race |-> 1]

\* The NPCs: eye and hair (0: none), hair length, sex, the player record,
\* the name (None, one that reProcess matches, another).
Npcs ==
    [eye : {0, 1}, hair : {0, 1}, hairLength : {0, 1}, female : BOOLEAN,
     player : BOOLEAN, full : {"None", "dremora", "other"}, race : {1}]

\* buildPatch is about to run on a patch with the races R and the NPCs N,
\* with the eye meshes E, the vanilla eyes V and the hair records H.
InitRacePatcher(R, N, E, V, H) ==
    /\ IdlePreserver /\ IdleReader /\ IdleTweaks /\ IdleLater
    /\ races0 \in R
    /\ races = races0
    /\ eye_mesh \in E
    /\ vanilla_eyes \in V
    /\ hair_flags \in H
    /\ npcs0 \in N
    /\ npcs = npcs0
    /\ rkept = {}
    /\ final_eyes = EmptyMap /\ defaultHair = EmptyMap
    /\ rc_idx = 1
    /\ rc_pc = "build"

\* One race with up to NEyes eyes of any meshes, no hairs, and a bare NPC.
InitRaceFilter ==
    \E n \in 0..NEyes :
        InitRacePatcher(
            {<<>>} \cup
            {<<RaceOf([i \in 1..n |-> i], <<>>, f[1], f[2], f[3], f[4], mesh)>> :
                f \in {<<TRUE, FALSE, TRUE, FALSE>>,
                       <<FALSE, TRUE, TRUE, FALSE>>,
                       <<FALSE, FALSE, TRUE, FALSE>>,
                       <<TRUE, FALSE, FALSE, FALSE>>,
                       <<TRUE, FALSE, TRUE, TRUE>>},
                mesh \in ModPaths},
            {<<BareNpc>>}, EyeMeshes(n, Meshes), {EmptyMap}, {EmptyMap})

\* The most NPCs of a patch.
NNpcs == 1

\* The eye lists and the hair lists of a race with NPCs.
NpcRaceEyes == {<<>>, <<1>>, <<2, 1>>}
NpcRaceHairs == {<<>>, <<1>>, <<2, 1>>}

\* One race with up to two eyes and two hairs, and up to NNpcs NPCs; hair 2
\* is for females only.
InitRaceNpc ==
    \E eyes \in NpcRaceEyes :
        InitRacePatcher(
            {<<>>} \cup
            {<<RaceOf(eyes, hairs, f[1], f[2], TRUE, FALSE, "blue")>> :
                hairs \in NpcRaceHairs,
                f \in {<<TRUE, FALSE>>, <<FALSE, TRUE>>, <<FALSE, FALSE>>}},
            SeqsUpTo(Npcs, NNpcs),
            [Range(eyes) -> {"blue", "a"}],
            {EmptyMap, [r \in {1} |-> <<2, 1>>]},
            {[h \in {1, 2} |->
                IF h = 1 THEN fl ELSE [notMale |-> TRUE, notFemale |-> FALSE]] :
                fl \in [notMale : BOOLEAN, notFemale : BOOLEAN]})

NextRaces ==
    \/ RaceNoTop
    \/ RaceBuildPatch
    \/ FilterRace
    \/ SortRace
    \/ AssignNpc

SpecRaceFilter == InitRaceFilter /\ [][NextRaces]_vars
SpecRaceNpc == InitRaceNpc /\ [][NextRaces]_vars

\* ----------------------------------------------------------- scan phase
\* The scanModFile methods at work on one record type of the patch file:
\* MultiTweakItem.scanModFile (pass), BasalNPCTweaker.scanModFile,
\* NamesTweak_Potions.scanModFile, ClothesTweaker.scanModFile and
\* _APreserver.scanModFile.
ScanKinds ==
    {"MultiTweakItem", "BasalNPCTweaker", "NamesTweak_Potions",
     "ClothesTweaker", "_APreserver"}

\* ClothesTweak.isMyType for some enabled tweak: value 1 stands for the
\* flags of a playable record of the tweak's type.
isMyType(value) == value = 1

\* Mutant of PatchUpdated: the patch file does not update its records.
PatchNotUpdated(T, plugin) == T

\* PatchFile.update_patch_records_from_mod: a record that is in the patch
\* is overwritten by the plugin's version of it.
PatchUpdated(T, plugin) ==
    [fid \in DOMAIN T |-> IF fid \in DOMAIN plugin THEN plugin[fid] ELSE T[fid]]

\* The FormIDs for which the scanModFile of the kind calls setRecord with a
\* copy of the plugin's record, the patch holding the records T.
ScanSets(kind, T, plugin) ==
    CASE kind = "MultiTweakItem" -> {}
      [] kind = "BasalNPCTweaker" -> DOMAIN plugin
      [] kind = "NamesTweak_Potions" ->
            {fid \in DOMAIN plugin : fid \notin DOMAIN T}
      [] kind = "ClothesTweaker" ->
            {fid \in DOMAIN plugin :
                fid \notin DOMAIN T /\ isMyType(plugin[fid])}
      [] OTHER ->
            {fid \in DOMAIN plugin :
                /\ ~(fid \in DOMAIN T \/ fid \notin DOMAIN sc_data)
                /\ plugin[fid] # sc_data[fid]}

\* patchBlock.setRecord for the FormIDs S with the plugin's records.
SetRecords(T, S, plugin) ==
    [fid \in DOMAIN T \cup S |-> IF fid \in S THEN plugin[fid] ELSE T[fid]]

\* The patch file updates its records from the plugin that is loaded for
\* this call: on every load, or on the first load of the plugin only.
UpdatesOnLoad(m) == sc_loads = "each" \/ m \notin sc_loaded

\* The patcher whose scanModFile may be called next: per plugin the first
\* patcher and then the second, or any patcher that has plugins left.
MayScan(p) ==
    /\ sc_pos[p] <= NMods
    /\ sc_order = "plugin" =>
          IF p = 1 THEN sc_pos[1] = sc_pos[2] ELSE sc_pos[2] < sc_pos[1]

\* One scanModFile call: patcher p scans its next plugin, which the patch
\* file has loaded for it.
ScanPlugin ==
    \E p \in {1, 2} :
        /\ sc_kinds # <<>> /\ MayScan(p)
        /\ LET m == sc_pos[p]
               plugin == sc_plugins[m]
               T == IF UpdatesOnLoad(m) THEN PatchUpdated(sc_patch, plugin)
                    ELSE sc_patch
               S == ScanSets(sc_kinds[p], T, plugin)
           IN /\ sc_patch' = SetRecords(T, S, plugin)
              /\ sc_from' = [fid \in DOMAIN T \cup S |->
                                IF fid \in S \/ (UpdatesOnLoad(m) /\
                                                 fid \in DOMAIN plugin)
                                THEN m ELSE sc_from[fid]]
              /\ sc_staged' = sc_staged \cup {<<p, fid, m>> : fid \in S}
              /\ sc_loaded' = sc_loaded \cup {m}
        /\ sc_pos' = [sc_pos EXCEPT ![p] = @ + 1]
        /\ UNCHANGED <<sc_plugins, sc_kinds, sc_data, sc_order, sc_loads,
                       besideScan>>

\* The scan phase of two patchers over a load order of NMods plugins is
\* about to begin; id_data of a preserver holds a value for the record or
\* none.
InitScan ==
    /\ IdleBesideScan
    /\ sc_plugins \in [Mods -> RecMaps(OneFid, Vals)]
    /\ sc_kinds \in ScanKinds \X ScanKinds
    /\ sc_data \in (IF "_APreserver" \in {sc_kinds[1], sc_kinds[2]}
                     THEN RecMaps(OneFid, Vals) ELSE {EmptyMap})
    /\ sc_order \in {"plugin", "any"}
    /\ sc_loads \in {"each", "first"}
    /\ sc_loaded = {}
    /\ sc_pos = <<1, 1>>
    /\ sc_patch = EmptyMap
    /\ sc_from = EmptyMap
    /\ sc_staged = {}

NextScan == ScanPlugin

SpecScan == InitScan /\ [][NextScan]_vars

\* ---------------------------------------------------------- build order
\* The patchers of the build whose editOrder the sources give.
Patchers ==
    {"UpdateReferences", "WeaponModsPatcher", "GmstTweaker", "ClothesTweaker",
     "AssortedTweaker", "NamesTweaker", "RacePatcher", "CoblExhaustion"}

\* Mutant of editOrder: the ClothesTweaker edits after the tweakers of 32.
editOrderClothesLate(p) ==
    CASE p = "UpdateReferences" -> 15
      [] p = "WeaponModsPatcher" -> 27
      [] p = "GmstTweaker" -> 29
      [] p \in {"AssortedTweaker", "NamesTweaker"} -> 32
      [] p = "ClothesTweaker" -> 33
      [] OTHER -> 40

\* The class attribute editOrder.
editOrder(p) ==
    CASE p = "UpdateReferences" -> 15
      [] p = "WeaponModsPatcher" -> 27
      [] p = "GmstTweaker" -> 29
      [] p = "ClothesTweaker" -> 31
      [] p \in {"AssortedTweaker", "NamesTweaker"} -> 32
      [] OTHER -> 40

RECURSIVE SortedByEditOrder(_)
\* sorted(patchers, key=attrgetter('editOrder')): a stable sort, patchers
\* of equal editOrder stay in the order of the list.
SortedByEditOrder(list) ==
    IF list = <<>> THEN <<>>
    ELSE LET least == CHOOSE i \in DOMAIN list :
                        /\ \A j \in DOMAIN list :
                              editOrder(list[i]) <= editOrder(list[j])
                        /\ \A j \in 1..(i - 1) :
                              editOrder(list[j]) # editOrder(list[i])
         IN <<list[least]>> \o
            SortedByEditOrder([k \in 1..(Len(list) - 1) |->
                                 IF k < least THEN list[k] ELSE list[k + 1]])

\* The mutations of the patch that one buildPatch makes.
BuildSteps == 2

\* The most patchers enabled.
MaxPatchers == 3

\* The patch file sorts its patchers for the build passes.
SortPatchers ==
    /\ od_pc = "sort"
    /\ od_sorted' = SortedByEditOrder(od_instances)
    /\ od_pc' = IF od_instances = <<>> THEN "done" ELSE "build"
    /\ UNCHANGED <<od_instances, od_idx, od_step, od_log, besideOrder>>

\* One mutation of the patch by the buildPatch that runs; after its last
\* mutation buildPatch returns and the next patcher's buildPatch is called.
BuildMutation ==
    /\ od_pc = "build"
    /\ od_log' = Append(od_log, od_sorted[od_idx])
    /\ IF od_step + 1 < BuildSteps
       THEN od_step' = od_step + 1 /\ UNCHANGED <<od_idx, od_pc>>
       ELSE /\ od_step' = 0
            /\ od_idx' = od_idx + 1
            /\ od_pc' = IF od_idx = Len(od_sorted) THEN "done" ELSE "build"
    /\ UNCHANGED <<od_instances, od_sorted, besideOrder>>

RECURSIVE PatcherLists(_)
\* The lists of up to n patchers.
PatcherLists(n) ==
    IF n = 0 THEN {<<>>}
    ELSE PatcherLists(n - 1) \cup
         {Append(l, p) : l \in {x \in PatcherLists(n - 1) : Len(x) = n - 1},
                         p \in Patchers}

\* The patch file has its enabled patchers, in any order.
InitOrder ==
    /\ IdleBesideOrder
    /\ od_instances \in {l \in PatcherLists(MaxPatchers) :
                            \A i, j \in DOMAIN l : i # j => l[i] # l[j]}
    /\ od_sorted = <<>>
    /\ od_idx = 1
    /\ od_step = 0
    /\ od_log = <<>>
    /\ od_pc = "sort"

NextOrder == SortPatchers \/ BuildMutation

SpecOrder == InitOrder /\ [][NextOrder]_vars

\* ------------------------------------------------- the random module
\* The states of the generator of the random module.
RandStates == 8

\* The state of the generator after one draw.
random_next(s) == (5 * s + 3) % RandStates

\* random.seed(a)
random_seed(a) == a % RandStates

\* random.choice(list) in state s
random_choice(list, s) == list[(s % Len(list)) + 1]

\* random.random() in state s, as a hair length that is not zero
random_random(s) == s + 1

\* The NPC loop of RacePatcher.buildPatch with a generator that is given
\* to each build, seeded the same.
DrawStateSeeded(build_state, idx) == IF idx = 1 THEN 0 ELSE build_state

\* The state that the NPC loop of RacePatcher.buildPatch draws from: that
\* of the random module, whatever it is.
DrawState(build_state, idx) == build_state

\* RacePatcher.buildPatch assigns eye, hair and hair length to one NPC.
AssignRandom ==
    /\ rn_pc = "npc"
    /\ LET npc == rn_npcs[rn_idx]
           s0 == DrawState(rn_state, rn_idx)
           setEye == npc.eye = 0 /\ rn_eyes # <<>>
           s1 == IF setEye THEN random_next(s0) ELSE s0
           setHair == npc.hair = 0 /\ rn_hairs # <<>>
           s2 == IF setHair THEN random_next(s1) ELSE s1
           setLength == npc.hairLength = 0
       IN /\ rn_npcs' = [rn_npcs EXCEPT ![rn_idx] =
                [eye |-> IF setEye THEN random_choice(rn_eyes, s0)
                         ELSE npc.eye,
                 hair |-> IF setHair THEN random_choice(rn_hairs, s1)
                          ELSE npc.hair,
                 hairLength |-> IF setLength THEN random_random(s2)
                                ELSE npc.hairLength]]
          /\ rn_state' = IF setLength THEN random_next(s2) ELSE s2
    /\ IF rn_idx < Len(rn_npcs)
       THEN rn_idx' = rn_idx + 1 /\ UNCHANGED rn_pc
       ELSE rn_idx' = 1 /\ rn_pc' = IF rn_build = 1 THEN "built" ELSE "done"
    /\ UNCHANGED <<rn_eyes, rn_hairs, rn_npcs0, rn_build, rn_first,
                   besideRandom>>

\* Other code of the run uses the random module before a build: the
\* skeleton tweak seeds it with a record's FormID, the book tweak draws.
RandomElsewhere ==
    /\ rn_pc \in {"start", "built"}
    /\ \/ \E fid \in Fids : rn_state' = random_seed(fid)
       \/ rn_state' = random_next(rn_state)
    /\ rn_pc' = IF rn_pc = "start" THEN "npc" ELSE "again"
    /\ UNCHANGED <<rn_eyes, rn_hairs, rn_npcs0, rn_npcs, rn_idx, rn_build,
                   rn_first, besideRandom>>

\* The patch is built a second time from the same inputs.
BuildAgain ==
    /\ rn_pc \in {"built", "again"}
    /\ rn_first' = rn_npcs
    /\ rn_npcs' = rn_npcs0
    /\ rn_build' = 2
    /\ rn_pc' = "npc"
    /\ UNCHANGED <<rn_state, rn_eyes, rn_hairs, rn_npcs0, rn_idx,
                   besideRandom>>

\* The NPCs of two builds: eye and hair (0: none) and hair length.
RandomNpcs == [eye : {0, 1}, hair : {0, 1}, hairLength : {0, 1}]

\* The first build is about to run, or other code before it; the generator
\* of the random module is in any state.
InitRandom ==
    /\ IdleBesideRandom
    /\ rn_state \in 0..(RandStates - 1)
    /\ rn_eyes \in {<<>>, <<1>>, <<1, 2>>}
    /\ rn_hairs \in {<<>>, <<1, 2, 3>>}
    /\ rn_npcs0 \in SeqsUpTo(RandomNpcs, NNpcs) \ {<<>>}
    /\ rn_npcs = rn_npcs0
    /\ rn_idx = 1
    /\ rn_build = 1
    /\ rn_first = <<>>
    /\ rn_pc \in {"start", "npc"}

NextRandom == AssignRandom \/ RandomElsewhere \/ BuildAgain

SpecRandom == InitRandom /\ [][NextRandom]_vars

\* ------------------------------------------------------ Cobl exhaustion
\* The version of Cobl Main.esm above which the patcher is to run, in
\* hundredths.
CoblVersion == 165

\* Mutant of CoblActive: isActive is and-ed with the Cobl condition.
CoblActiveAnd(listActive, inLoadSet, version) ==
    listActive /\ (inLoadSet /\ version > CoblVersion)

\* CoblExhaustion.__init__: self.isActive |= (Cobl Main in the load set
\* and its version > 1.65), after ListPatcher.__init__ set it from the
\* source list.
CoblActive(listActive, inLoadSet, version) ==
    listActive \/ (inLoadSet /\ version > CoblVersion)

\* CoblExhaustion.initData: id_exhaustion after reading every source file,
\* a later file's row for a FormID replacing an earlier one.
RECURSIVE CoblSources(_)
CoblSources(files) ==
    IF files = <<>> THEN EmptyMap
    ELSE LET before == CoblSources(SubSeq(files, 1, Len(files) - 1))
             last == files[Len(files)]
         IN [fid \in DOMAIN before \cup DOMAIN last |->
                IF fid \in DOMAIN last THEN last[fid] ELSE before[fid]]

\* id_exhaustion.get(rec_fid, 0)
ExhaustDuration(fid) ==
    IF fid \in DOMAIN ce_id_exhaustion THEN ce_id_exhaustion[fid] ELSE 0

\* CoblExhaustion.buildPatch changes this record of the patch.
CoblTweaked(fid) ==
    LET record == ce_patch[fid]
    IN /\ ~record.obme
       /\ ExhaustDuration(fid) # 0 /\ record.spellType = 2
       /\ \A i \in DOMAIN record.effects : record.effects[i] # "exhaust"

\* The record as CoblExhaustion.buildPatch leaves it: a lesser power with
\* "+" before its name and the exhaustion effect appended.
CoblExhausted(record) ==
    [record EXCEPT !.plus = record.plus + 1, !.spellType = 3,
                   !.effects = Append(record.effects, "exhaust")]

\* CoblExhaustion.__init__
CoblConstruct ==
    /\ ce_pc = "new"
    /\ ce_isActive' = CoblActive(ce_srcs # <<>>, ce_loadSet, ce_version)
    /\ ce_pc' = "initData"
    /\ UNCHANGED <<ce_srcs, ce_loadSet, ce_version, ce_id_exhaustion,
                   ce_plugin, ce_patch, ce_scanned, ce_kept, besideCobl>>

\* CoblExhaustion.initData
CoblInitData ==
    /\ ce_pc = "initData"
    /\ ce_id_exhaustion' = IF ce_isActive THEN CoblSources(ce_srcs)
                           ELSE ce_id_exhaustion
    /\ ce_pc' = "scan"
    /\ UNCHANGED <<ce_srcs, ce_loadSet, ce_version, ce_isActive, ce_plugin,
                   ce_patch, ce_scanned, ce_kept, besideCobl>>

\* CoblExhaustion.scanModFile of the plugin.
CoblScanModFile ==
    /\ ce_pc = "scan"
    /\ ce_patch' = [fid \in {f \in DOMAIN ce_plugin :
                                /\ ce_plugin[f].spellType = 2
                                /\ f \in DOMAIN ce_id_exhaustion} |->
                       ce_plugin[fid]]
    /\ ce_scanned' = ce_patch'
    /\ ce_pc' = "build"
    /\ UNCHANGED <<ce_srcs, ce_loadSet, ce_version, ce_isActive,
                   ce_id_exhaustion, ce_plugin, ce_kept, besideCobl>>

\* CoblExhaustion.buildPatch
CoblBuildPatch ==
    /\ ce_pc = "build"
    /\ IF ~ce_isActive
       THEN UNCHANGED <<ce_patch, ce_kept>>
       ELSE /\ ce_patch' = [fid \in DOMAIN ce_patch |->
                               IF CoblTweaked(fid)
                               THEN CoblExhausted(ce_patch[fid])
                               ELSE ce_patch[fid]]
            /\ ce_kept' = ce_kept \cup
                             {fid \in DOMAIN ce_patch : CoblTweaked(fid)}
    /\ ce_pc' = "done"
    /\ UNCHANGED <<ce_srcs, ce_loadSet, ce_version, ce_isActive,
                   ce_id_exhaustion, ce_plugin, ce_scanned, besideCobl>>

\* The SPEL records: greater power (2) or not, the effects, an OBME record
\* or not, the "+" before the name.
Spells ==
    [spellType : {2, 3}, effects : {<<>>, <<"other">>, <<"exhaust">>},
     obme : BOOLEAN, plus : {0}]

\* The rows of a source file: FormID -> time.
CoblFiles == UNION {[S -> {0, 5}] : S \in SUBSET {1, 2}}

\* The patcher is about to be constructed, with or without source files,
\* and with or without Cobl Main.esm of some version in the load set.
InitCobl ==
    /\ IdleBesideCobl
    /\ ce_srcs \in SeqsUpTo(CoblFiles, 1)
    /\ ce_loadSet \in BOOLEAN
    /\ ce_version \in {0, CoblVersion, CoblVersion + 1}
    /\ ce_isActive = FALSE
    /\ ce_id_exhaustion = EmptyMap
    /\ ce_plugin \in {[f \in {1, 2} |-> IF f = 1 THEN r ELSE q] :
                         r \in Spells,
                         q \in {x \in Spells : ~x.obme /\ x.effects = <<>>}}
    /\ ce_patch = EmptyMap
    /\ ce_scanned = EmptyMap
    /\ ce_kept = {}
    /\ ce_pc = "new"

NextCobl ==
    \/ CoblConstruct
    \/ CoblInitData
    \/ CoblScanModFile
    \/ CoblBuildPatch

SpecCobl == InitCobl /\ [][NextCobl]_vars

\* -------------------------------------------------------- cell importer
\* The attributes of a cell that cellData may hold, and its flags.
CellAttrs == {"regions", "music"}
CellFlags == {"public"}

\* Mutant of CellAttrDiffers: regions are compared like every other
\* attribute.
CellAttrDiffersPlain(attr, value, curr_value) == value # curr_value

\* handlePatchCellBlock: whether the cellData value of an attribute is
\* taken to differ from the cell's; for regions, whether cellData has a
\* region that the cell lacks.
CellAttrDiffers(attr, value, curr_value) ==
    IF attr = "regions"
    THEN Range(value) \ Range(curr_value) # {}
    ELSE value # curr_value

\* handlePatchCellBlock: the cell with the differing values of cellData.
CellPatched(cell, data) ==
    [a \in DOMAIN cell |->
        IF a = "flags"
        THEN [f \in DOMAIN cell.flags |->
                IF f \in DOMAIN data.flags THEN data.flags[f]
                ELSE cell.flags[f]]
        ELSE IF a \in DOMAIN data.attrs
                /\ CellAttrDiffers(a, data.attrs[a], cell[a])
             THEN data.attrs[a]
             ELSE cell[a]]

\* handlePatchCellBlock: modified.
CellModified(cell, data) ==
    \/ \E a \in DOMAIN data.attrs : CellAttrDiffers(a, data.attrs[a], cell[a])
    \/ \E f \in DOMAIN data.flags : cell.flags[f] # data.flags[f]

\* CellImporter.buildPatch with self.isActive false: returns at once.
CellBuildInactive ==
    /\ ci_pc = "build" /\ ~ci_isActive
    /\ ci_pc' = "done"
    /\ UNCHANGED <<ci_isActive, ci_cellData, ci_data0, ci_cells0, ci_cells,
                   ci_idx, ci_kept, besideCell>>

\* CellImporter.buildPatch: one cell block of the patch.
CellBuildBlock ==
    /\ ci_pc = "build" /\ ci_isActive /\ ci_idx <= Len(ci_cells)
    /\ LET cell == ci_cells[ci_idx]
       IN IF cell.fid \in DOMAIN ci_cellData
          THEN /\ ci_cells' = [ci_cells EXCEPT ![ci_idx] =
                                 CellPatched(cell, ci_cellData[cell.fid])]
               /\ ci_kept' = IF CellModified(cell, ci_cellData[cell.fid])
                             THEN ci_kept \cup {cell.fid} ELSE ci_kept
          ELSE UNCHANGED <<ci_cells, ci_kept>>
    /\ ci_idx' = ci_idx + 1
    /\ UNCHANGED <<ci_isActive, ci_cellData, ci_data0, ci_cells0, ci_pc,
                   besideCell>>

\* CellImporter.buildPatch after the last cell block: cellData is cleared.
CellBuildDone ==
    /\ ci_pc = "build" /\ ci_isActive /\ ci_idx > Len(ci_cells)
    /\ ci_cellData' = EmptyMap
    /\ ci_pc' = "done"
    /\ UNCHANGED <<ci_isActive, ci_data0, ci_cells0, ci_cells, ci_idx,
                   ci_kept, besideCell>>

\* The region lists of a cell.
RegionLists == {<<>>, <<1>>, <<2>>, <<1, 2>>, <<2, 1>>}

\* The cells with FormID fid.
Cells(fid) ==
    [fid : {fid}, regions : RegionLists, music : {0, 1},
     flags : [CellFlags -> BOOLEAN]]

\* The entries of cellData: values for some attributes and some flags.
CellDatas ==
    [attrs : UNION {[A -> {0, 1}] : A \in SUBSET {"music"}} \cup
             {[a \in {"regions"} |-> r] : r \in RegionLists} \cup
             {[a \in CellAttrs |-> IF a = "regions" THEN r ELSE m] :
                r \in RegionLists, m \in {0, 1}},
     flags : UNION {[F -> BOOLEAN] : F \in SUBSET CellFlags}]

\* buildPatch is about to run on a patch with one or two cell blocks,
\* cellData holding entries for some of them.
InitCell ==
    /\ IdleBesideCell
    /\ ci_isActive \in BOOLEAN
    /\ ci_cellData \in
         UNION {[D -> CellDatas] : D \in {{}, {1}}} \cup
         {[f \in {1, 2} |->
             IF f = 1 THEN d
             ELSE [attrs |-> [a \in {"music"} |-> 1], flags |-> EmptyMap]] :
             d \in CellDatas}
    /\ ci_data0 = ci_cellData
    /\ ci_cells0 \in {<<c>> : c \in Cells(1)} \cup
                     {<<c, CHOOSE d \in Cells(2) :
                              /\ d.regions = <<>> /\ d.music = 0
                              /\ ~d.flags["public"]>> : c \in Cells(1)}
    /\ ci_cells = ci_cells0
    /\ ci_idx = 1
    /\ ci_kept = {}
    /\ ci_pc = "build"

NextCell == CellBuildInactive \/ CellBuildBlock \/ CellBuildDone

SpecCell == InitCell /\ [][NextCell]_vars

\* ------------------------------------------- enchantment number of uses
\* max(a, b)
Max(a, b) == IF a >= b THEN a ELSE b

\* Mutant of calc_cost_and_amount: the cost is not rounded up to 1.
calc_cost_and_amount_floor(record, chosen_uses) ==
    LET final_cost == IF chosen_uses # 0
                      THEN record.chargeAmount \div chosen_uses ELSE 0
    IN <<final_cost, final_cost * chosen_uses>>

\* _calc_cost_and_amount: the new enchantment cost and charge amount.
calc_cost_and_amount(record, chosen_uses) ==
    LET final_cost == IF chosen_uses # 0
                      THEN Max(record.chargeAmount \div chosen_uses, 1)
                      ELSE 0
    IN <<final_cost, final_cost * chosen_uses>>

\* AAssortedTweak_SetCastWhenUsedEnchantmentCosts.wants_record
ench_wants_record(record, chosen_uses) ==
    /\ record.itemType \in {1, 2}
    /\ LET new == calc_cost_and_amount(record, chosen_uses)
       IN record.enchantCost # new[1] \/ record.chargeAmount # new[2]

\* buildPatch of the tweak: one record of the patch.
EnchBuildRecord ==
    /\ en_pc = "build"
    /\ LET record == en_records[en_idx]
           new == calc_cost_and_amount(record, en_uses)
       IN IF ench_wants_record(record, en_uses)
          THEN /\ en_records' = [en_records EXCEPT ![en_idx] =
                     [record EXCEPT !.enchantCost = new[1],
                                    !.chargeAmount = new[2]]]
               /\ en_kept' = en_kept \cup {en_idx}
          ELSE UNCHANGED <<en_records, en_kept>>
    /\ IF en_idx < Len(en_records)
       THEN en_idx' = en_idx + 1 /\ UNCHANGED en_pc
       ELSE en_idx' = 1 /\ en_pc' = IF en_run = 1 THEN "built" ELSE "done"
    /\ UNCHANGED <<en_uses, en_records0, en_first, en_run, besideEnch>>

\* The tweak is run a second time, on the patch it left.
EnchBuildAgain ==
    /\ en_pc = "built"
    /\ en_first' = en_records
    /\ en_kept' = {}
    /\ en_run' = 2
    /\ en_pc' = "build"
    /\ UNCHANGED <<en_uses, en_records0, en_records, en_idx, besideEnch>>

\* The greatest charge amount and enchantment cost of a record before the
\* tweak.
MaxCharge == 7
MaxCost == 3

\* The ENCH records: itemType 1 and 2 are weapons and staves.
Enchantments ==
    [itemType : {0, 1, 2, 3}, chargeAmount : 0..MaxCharge,
     enchantCost : 0..MaxCost]

\* The numbers of uses to choose from; 0 is Unlimited.
UsesChoices == {0, 1, 2, 3, 5}

\* buildPatch is about to run on a patch of one or two ENCH records.
InitEnch ==
    /\ IdleBesideEnch
    /\ en_uses \in UsesChoices
    /\ en_records0 \in
         {<<r>> : r \in Enchantments} \cup
         {<<r, [itemType |-> 2, chargeAmount |-> MaxCharge,
                enchantCost |-> 1]>> : r \in Enchantments}
    /\ en_records = en_records0
    /\ en_first = <<>>
    /\ en_idx = 1
    /\ en_kept = {}
    /\ en_run = 1
    /\ en_pc = "build"

NextEnch == EnchBuildRecord \/ EnchBuildAgain

SpecEnch == InitEnch /\ [][NextEnch]_vars

\* -------------------------------------------- merges of similar races
\* The words of a name that begin a part in parentheses.
ParenWords == {"(rbp)"}

\* race.split('(')[0].split(), with 'elf' and 'seducer' joined to the word
\* before them: the tokens of a name, each a sequence of words.
NameTokens(race) ==
    LET n == IF \E i \in DOMAIN race : race[i] \in ParenWords
             THEN (CHOOSE i \in DOMAIN race :
                      /\ race[i] \in ParenWords
                      /\ \A j \in 1..(i - 1) : race[j] \notin ParenWords) - 1
             ELSE Len(race)
         rs == SubSeq(race, 1, n)
    IN IF Len(rs) > 1 /\ rs[2] \in {"elf", "seducer"}
       THEN {<<rs[1], rs[2]>>} \cup {<<rs[i]>> : i \in 3..Len(rs)}
       ELSE {<<rs[i]>> : i \in 1..Len(rs)}

\* s in r: the words of token s are in name r, one after the other.
TokenIn(tok, r) ==
    \E k \in 0..(Len(r) - Len(tok)) :
        \A i \in DOMAIN tok : r[k + i] = tok[i]

\* Race r is similar to race: another race whose name holds a token of
\* race's name.
Similar(race, r) ==
    r # race /\ \E tok \in NameTokens(race) : TokenIn(tok, r)

\* The eyes tweak's assignment of the full merge, for the hairs too:
\* the elements merged so far, of the other race and of the race.
MergedAccumulated(kind, sofar, other, own) ==
    sofar \cup Range(other) \cup Range(own)

\* The assignment to changedHairs[race] or changedEyes[race] of the full
\* merge: list(set(...)), as the set of its elements.
Merged(kind, sofar, other, own) ==
    IF kind = "eyes"
    THEN sofar \cup Range(other) \cup Range(own)
    ELSE Range(other) \cup Range(own)

RECURSIVE MergeLoop(_, _, _, _)
\* The inner loop "for r in extra_" of the full merge from its k-th key on:
\* the entry of race in the changed lists, given the entry so far.
MergeLoop(kind, race, k, entry) ==
    IF k > Len(mg_order) THEN entry
    ELSE LET r == mg_order[k]
             hit == Similar(race, r) /\ mg_extra[r] # mg_extra[race]
         IN MergeLoop(kind, race, k + 1,
                IF hit
                THEN [set |-> TRUE,
                      elems |-> Merged(kind, entry.elems, mg_extra[r],
                                       mg_extra[race])]
                ELSE entry)

\* buildPatch of the tweak, full merge: one race of the outer loop.
MergeSimilar ==
    /\ mg_pc = "merge"
    /\ LET race == mg_order[mg_i]
           entry == MergeLoop(mg_kind, race, 1, [set |-> FALSE, elems |-> {}])
       IN mg_changed' =
            IF entry.set
            THEN [n \in DOMAIN mg_changed \cup {race} |->
                     IF n = race THEN SortedSeq(entry.elems)
                     ELSE mg_changed[n]]
            ELSE mg_changed
    /\ IF mg_i < Len(mg_order)
       THEN mg_i' = mg_i + 1 /\ UNCHANGED mg_pc
       ELSE mg_i' = 1 /\ mg_pc' = "apply"
    /\ UNCHANGED <<mg_kind, mg_extra, mg_order, mg_lists, mg_kept,
                   besideMerge>>

\* buildPatch of the tweak: the loop over the RACE records of the patch.
MergeApply ==
    /\ mg_pc = "apply"
    /\ mg_lists' = [n \in DOMAIN mg_lists |->
                       IF n \in DOMAIN mg_changed THEN mg_changed[n]
                       ELSE mg_lists[n]]
    /\ mg_kept' = mg_kept \cup (DOMAIN mg_lists \cap DOMAIN mg_changed)
    /\ mg_pc' = "done"
    /\ UNCHANGED <<mg_kind, mg_extra, mg_order, mg_changed, mg_i,
                   besideMerge>>

\* The lower-cased names of the races.
RaceNames ==
    {<<"khajiit">>, <<"khajiit", "(rbp)">>, <<"ohmes", "khajiit">>,
     <<"dark", "elf">>, <<"wood", "elf">>}

\* The most races of a patch whose lists are merged.
NRaces == 3

\* The hair or eye lists of a race.
MergeLists == {<<1>>, <<2>>, <<3>>, <<1, 2>>}

\* The orders of the elements of set S.
Orders(S) ==
    {o \in [1..Cardinality(S) -> S] : \A n \in S : \E i \in DOMAIN o : o[i] = n}

\* buildPatch of a merge tweak with the full merge chosen is about to
\* run on a patch of up to NRaces named races.
InitMerge ==
    /\ IdleBesideMerge
    /\ mg_kind \in {"hairs", "eyes"}
    /\ mg_extra \in UNION {[D -> MergeLists] :
                              D \in {X \in SUBSET RaceNames :
                                        /\ X # {}
                                        /\ Cardinality(X) <= NRaces}}
    /\ mg_order \in Orders(DOMAIN mg_extra)
    /\ mg_changed = EmptyMap
    /\ mg_i = 1
    /\ mg_lists = mg_extra
    /\ mg_kept = {}
    /\ mg_pc = "merge"

NextMerge == MergeSimilar \/ MergeApply

SpecMerge == InitMerge /\ [][NextMerge]_vars

\* ---------------------------------------------------------- race import
\* The keys of raceData whose value replaces the race's when it differs:
\* text stands for teeth, mouth, tongue, head, the skills and the body
\* data, which the import treats alike.
ImportKeys == {"text"}

\* The race after "Import race info" with the values data.
ImportedRace(race, data) ==
    LET sets == {"hairs", "eyes"}
        spells1 == IF "spellsOverride" \in DOMAIN data
                   THEN data["spellsOverride"] ELSE race.spells
        spells2 == IF "AddSpells" \in DOMAIN data
                   THEN spells1 \o data["AddSpells"] ELSE spells1
    IN [a \in DOMAIN race |->
          IF a \in sets /\ a \in DOMAIN data
             /\ Range(race[a]) # Range(data[a]) THEN data[a]
          ELSE IF a \in ImportKeys /\ a \in DOMAIN data THEN data[a]
          ELSE IF a = "spells" THEN spells2
          ELSE race[a]]

\* "Import race info" with every change of the race setting raceChanged.
ImportChangedAny(race, data) == ImportedRace(race, data) # race

\* raceChanged at the end of "Import race info" for a race.
ImportChanged(race, data) ==
    \/ \E a \in {"hairs", "eyes"} \cap DOMAIN data :
          Range(race[a]) # Range(data[a])
    \/ \E a \in ImportKeys \cap DOMAIN data : race[a] # data[a]

\* buildPatch, "Import race info": one race of the patch.
ImportRace ==
    /\ im_pc = "import"
    /\ LET race == im_races[im_idx]
       IN IF im_idx \in DOMAIN im_raceData /\ im_raceData[im_idx] # EmptyMap
          THEN /\ im_races' = [im_races EXCEPT ![im_idx] =
                                  ImportedRace(race, im_raceData[im_idx])]
               /\ im_kept' = IF ImportChanged(race, im_raceData[im_idx])
                             THEN im_kept \cup {im_idx} ELSE im_kept
          ELSE UNCHANGED <<im_races, im_kept>>
    /\ im_imported' = im_races'
    /\ IF im_idx < Len(im_races)
       THEN im_idx' = im_idx + 1 /\ UNCHANGED im_pc
       ELSE im_idx' = 1 /\ im_pc' = "sort"
    /\ UNCHANGED <<im_raceData, im_races0, besideImport>>

\* buildPatch after the import, for a race whose eyes are all of its
\* current eye mesh: the eye mesh filter leaves it alone, and "Sort
\* Eyes/Hair" sorts and keeps it if it is playable and has eyes.
ImportSort ==
    /\ im_pc = "sort"
    /\ LET race == im_races[im_idx]
       IN IF race.playable /\ race.eyes # <<>>
          THEN /\ im_races' = [im_races EXCEPT
                                  ![im_idx].hairs = SortByName(@),
                                  ![im_idx].eyes = SortByName(@)]
               /\ im_kept' = im_kept \cup {im_idx}
          ELSE UNCHANGED <<im_races, im_kept>>
    /\ IF im_idx < Len(im_races)
       THEN im_idx' = im_idx + 1 /\ UNCHANGED im_pc
       ELSE im_idx' = 1 /\ im_pc' = "done"
    /\ UNCHANGED <<im_raceData, im_races0, im_imported, besideImport>>

\* The races of the import.
ImportRaces ==
    [hairs : {<<>>, <<1>>, <<2, 1>>}, eyes : {<<>>, <<1>>},
     text : {<<>>, <<1>>},
     spells : {<<>>, <<1>>}, playable : BOOLEAN]

\* The values of raceData for a race: some of hairs, eyes, text, the
\* spells of R.ChangeSpells and the spells of R.AddSpells.
RaceDatas ==
    UNION {[K -> {<<>>, <<1>>, <<1, 2>>, <<2>>}] :
             K \in SUBSET {"hairs", "eyes", "text", "spellsOverride",
                           "AddSpells"}}

\* The values of raceData for a race, each of the kind of its key.
RaceDataOk(d) ==
    /\ "hairs" \in DOMAIN d => d["hairs"] \in {<<1>>, <<1, 2>>}
    /\ "eyes" \in DOMAIN d => d["eyes"] = <<1>>
    /\ "text" \in DOMAIN d => d["text"] = <<1>>
    /\ "spellsOverride" \in DOMAIN d => d["spellsOverride"] \in {<<>>, <<2>>}
    /\ "AddSpells" \in DOMAIN d => d["AddSpells"] = <<2>>

\* buildPatch is about to import into a patch of one race.
InitImport ==
    /\ IdleBesideImport
    /\ im_raceData \in {EmptyMap} \cup
                        {[i \in {1} |-> d] :
                           d \in {x \in RaceDatas : RaceDataOk(x)}}
    /\ im_races0 \in {<<r>> : r \in ImportRaces}
    /\ im_races = im_races0
    /\ im_imported = im_races0
    /\ im_idx = 1
    /\ im_kept = {}
    /\ im_pc = "import"

NextImport == ImportRace \/ ImportSort

SpecImport == InitImport /\ [][NextImport]_vars

\* ------------------------------------------------------------ claims
\* Some master of plugin m holds record f with another value of attribute a.
EditsAttr(m, f, a) ==
    \E k \in 1..Len(mods[m].masters) :
        /\ f \in DOMAIN mods[mods[m].masters[k]].recs
        /\ mods[mods[m].masters[k]].recs[f][a] # mods[m].recs[f][a]

\* Every master of plugin m that holds record f holds m's value of a.
InheritsAttr(m, f, a) ==
    \A k \in 1..Len(mods[m].masters) :
        f \in DOMAIN mods[mods[m].masters[k]].recs =>
            mods[mods[m].masters[k]].recs[f][a] = mods[m].recs[f][a]

\* The last plugin of the load order that holds record f.
Winner(f) ==
    CHOOSE m \in Mods : /\ f \in DOMAIN mods[m].recs
                        /\ \A n \in Mods : f \in DOMAIN mods[n].recs => n <= m

\* initData has returned and buildPatch has not run yet.
AfterInitData == pc \in {"update", "scan", "build"}

\* The case of C1: the sources are A and then B, A edits X of R, and B edits
\* Y of R while its X is the one of all its masters.
C1_Case(A, B, R, X, Y) ==
    /\ A < B /\ srcs = <<A, B>> /\ X # Y
    /\ ~ForceFullImport(A) /\ ~ForceFullImport(B)
    /\ R \in DOMAIN mods[A].recs /\ R \in DOMAIN mods[B].recs
    /\ EditsAttr(A, R, X) /\ InheritsAttr(B, R, X) /\ EditsAttr(B, R, Y)

\* C1: attribute-granular last-writer-wins.  With sources A (earlier) and B
\* (later), where A's X of record R differs from a master's and B leaves X as
\* in all its masters but edits Y: after initData id_data[R] holds A's X and
\* B's Y, and after scan and buildPatch the patch's record R carries A's X
\* and B's Y together; it is kept unless the last plugin of the load order
\* already carries both.
C1_AttributeGranular ==
    \A A \in Mods, B \in Mods, R \in Fids :
      \A X \in ClassAttrs(cls), Y \in ClassAttrs(cls) :
        C1_Case(A, B, R, X, Y) =>
          /\ AfterInitData =>
                /\ R \in DOMAIN id_data
                /\ {X, Y} \subseteq DOMAIN id_data[R]
                /\ id_data[R][X] = mods[A].recs[R][X]
                /\ id_data[R][Y] = mods[B].recs[R][Y]
          /\ pc = "done" =>
                /\ R \in DOMAIN tops
                /\ tops[R][X] = mods[A].recs[R][X]
                /\ tops[R][Y] = mods[B].recs[R][Y]
                /\ \/ R \in kept
                   \/ /\ mods[Winner(R)].recs[R][X] = mods[A].recs[R][X]
                      /\ mods[Winner(R)].recs[R][Y] = mods[B].recs[R][Y]

\* C1 witness: the case has happened, B's own X is not A's, and the record
\* was patched to A's X and B's Y and kept.
C1_Witness ==
    /\ pc = "done"
    /\ \E A \in Mods, B \in Mods, R \in Fids :
         \E X \in ClassAttrs(cls), Y \in ClassAttrs(cls) :
            /\ C1_Case(A, B, R, X, Y)
            /\ mods[A].recs[R][X] # mods[B].recs[R][X]
            /\ R \in kept
            /\ tops[R][X] = mods[A].recs[R][X]
            /\ tops[R][Y] = mods[B].recs[R][Y]

\* The positions in m's master list of the masters that hold record f.
MastersWith(m, f) ==
    {k \in 1..Len(mods[m].masters) : f \in DOMAIN mods[mods[m].masters[k]].recs}

\* The baseline of record f for plugin m: the record of the last master, in
\* master order, that holds f.
Baseline(m, f) ==
    mods[mods[m].masters[CHOOSE k \in MastersWith(m, f) :
                            \A j \in MastersWith(m, f) : j <= k]].recs[f]

\* C2 as claimed: a source without the force tag never writes to id_data an
\* attribute whose captured value equals the record's baseline value, the
\* value in the last master that holds the record.
C2_BaselineNeutral ==
    \A w \in wrote :
        (w[1] # 0 /\ ~ForceFullImport(w[1]) /\ MastersWith(w[1], w[2]) # {}) =>
            mods[w[1]].recs[w[2]][w[3]] # Baseline(w[1], w[2])[w[3]]

\* C2 amended: a source without the force tag never writes to id_data an
\* attribute whose captured value equals the value in every one of its
\* masters that holds the record.
C2_MasterNeutral ==
    \A w \in wrote :
        (w[1] # 0 /\ ~ForceFullImport(w[1])) => EditsAttr(w[1], w[2], w[3])

\* C2 witness: a source has written one attribute of a record and left out
\* another, which all its masters holding the record agree on.
C2_Witness ==
    /\ AfterInitData
    /\ \E m \in Mods, f \in Fids :
         \E a \in ClassAttrs(cls), b \in ClassAttrs(cls) :
            /\ <<m, f, b>> \in wrote /\ <<m, f, a>> \notin wrote
            /\ MastersWith(m, f) # {} /\ InheritsAttr(m, f, a)
            /\ f \in DOMAIN id_data /\ a \notin DOMAIN id_data[f]

\* The record differs from the entry d of id_data in some attribute of d.
DiffersFrom(record, d) == \E a \in DOMAIN d : record[a] # d[a]

\* C3 (keep-minimality): in buildPatch a staged record is kept if and only if
\* its FormID is in id_data and some attribute of id_data[fid] differs from
\* the record's current value; a staged record whose id_data attributes all
\* equal its current values is neither modified, nor kept, nor counted.
C3_KeepMinimal ==
    [][pc = "build" /\ isActive =>
        /\ \A fid \in DOMAIN tops :
             LET differs == /\ fid \in DOMAIN id_data
                            /\ DiffersFrom(tops[fid], id_data[fid])
             IN /\ fid \in kept' <=> differs
                /\ ~differs => /\ tops'[fid] = tops[fid]
                               /\ keep_calls'[fid] = keep_calls[fid]
        /\ type_count' = type_count +
             Cardinality({fid \in DOMAIN tops :
                            /\ fid \in DOMAIN id_data
                            /\ DiffersFrom(tops[fid], id_data[fid])})]_vars

\* C3, its second half alone: a staged record whose id_data attributes all
\* equal its current values is neither modified nor kept.
C3_EqualNotKept ==
    [][pc = "build" /\ isActive =>
        \A fid \in DOMAIN tops :
            (fid \in DOMAIN id_data /\ ~DiffersFrom(tops[fid], id_data[fid]))
                => fid \notin kept' /\ tops'[fid] = tops[fid]]_vars

\* C4 (atomic application): whenever buildPatch keeps a record, every
\* attribute of id_data[fid] has been written to it, every other attribute
\* of the record is unchanged, keep(fid) was called once, and the
\* modification counter has grown by one per kept record.
C4_AtomicApply ==
    [][pc = "build" =>
        /\ \A fid \in Fids :
             (fid \in kept' \ kept \/ keep_calls'[fid] # keep_calls[fid]) =>
                /\ fid \in DOMAIN tops /\ fid \in DOMAIN id_data
                /\ \A a \in DOMAIN id_data[fid] :
                      tops'[fid][a] = id_data[fid][a]
                /\ \A a \in DOMAIN tops[fid] \ DOMAIN id_data[fid] :
                      tops'[fid][a] = tops[fid][a]
                /\ fid \in kept'
                /\ keep_calls'[fid] = keep_calls[fid] + 1
        /\ type_count' = type_count + Cardinality(kept' \ kept)]_vars

\* C4 witness: a record was kept whose staged copy (the one of the last
\* plugin holding it) differed from id_data in two attributes at once, both
\* written by a source; both were set, with one keep call, counted once.
C4_Witness ==
    /\ pc = "done"
    /\ \E fid \in kept :
         /\ keep_calls[fid] = 1 /\ type_count = 1
         /\ \E a \in ClassAttrs(cls), b \in ClassAttrs(cls) :
              /\ a # b
              /\ \E m \in Mods : <<m, fid, a>> \in wrote
              /\ \E m \in Mods : <<m, fid, b>> \in wrote
              /\ tops[fid][a] # mods[Winner(fid)].recs[fid][a]
              /\ tops[fid][b] # mods[Winner(fid)].recs[fid][b]

\* C5 (candidate staging): while the plugins are scanned in load order, the
\* preserver copies a record only if its FormID is in id_data and it differs
\* from id_data in some attribute; right after plugin m was scanned the
\* patch holds m's copy of each such record of m; and after the last plugin,
\* a FormID is staged exactly if it is in id_data and some plugin's record
\* of it differs from id_data.
C5_CandidateStaging ==
    AfterInitData =>
      /\ \A sb \in staged_by :
            /\ sb[1] \in DOMAIN id_data
            /\ DiffersFrom(mods[sb[2]].recs[sb[1]], id_data[sb[1]])
      /\ (pc \in {"update", "build"} /\ scan_idx > 1) =>
            \A fid \in DOMAIN mods[scan_idx - 1].recs :
               (/\ fid \in DOMAIN id_data
                /\ DiffersFrom(mods[scan_idx - 1].recs[fid], id_data[fid]))
               => /\ fid \in DOMAIN tops
                  /\ tops[fid] = mods[scan_idx - 1].recs[fid]
      /\ pc = "build" =>
            \A fid \in Fids :
               fid \in DOMAIN tops <=>
                  /\ fid \in DOMAIN id_data
                  /\ \E m \in Mods : /\ fid \in DOMAIN mods[m].recs
                                     /\ DiffersFrom(mods[m].recs[fid],
                                                    id_data[fid])

\* C5 witness: the scan is over; the first plugin holds a record that is in
\* id_data and matches it, so it was not copied from there; a later plugin's
\* differing copy was staged by the preserver.
C5_Witness ==
    /\ pc = "build"
    /\ \E fid \in DOMAIN tops :
         /\ fid \in DOMAIN id_data
         /\ fid \in DOMAIN mods[1].recs
         /\ ~DiffersFrom(mods[1].recs[fid], id_data[fid])
         /\ \E m \in Mods : m > 1 /\ <<fid, m>> \in staged_by

\* The record of FormID f that the game ends up with: the patch's record if
\* it is kept, else the record of the last plugin holding it.
Effective(f) == IF f \in kept THEN tops[f] ELSE mods[Winner(f)].recs[f]

\* The case of C6: M0 defines R, the sources are M1 (masters [M0]) with
\* another name and M2 (masters [M1]) with M1's name; no CSV row for R.
C6_Case(M0, M1, M2, R) ==
    /\ M0 < M1 /\ M1 < M2 /\ srcs = <<M1, M2>>
    /\ mods[M1].masters = <<M0>> /\ mods[M2].masters = <<M1>>
    /\ R \in DOMAIN mods[M0].recs /\ R \in DOMAIN mods[M1].recs
    /\ R \in DOMAIN mods[M2].recs
    /\ mods[M1].recs[R]["full"] # mods[M0].recs[R]["full"]
    /\ mods[M2].recs[R]["full"] = mods[M1].recs[R]["full"]
    /\ \A t \in DOMAIN csv : R \notin DOMAIN csv[t]

\* C6 (scenario): after initData id_data[R] holds M1's name, written while
\* M1 was processed and not while M2 was; after scan and buildPatch the
\* record R of the patch, and the record the game ends up with, has M1's
\* name.
C6_Scenario ==
    \A M0 \in Mods, M1 \in Mods, M2 \in Mods, R \in Fids :
        C6_Case(M0, M1, M2, R) =>
          /\ AfterInitData =>
                /\ R \in DOMAIN id_data
                /\ id_data[R] = [full |-> mods[M1].recs[R]["full"]]
          /\ pc # "initData" =>
                {w \in wrote : w[2] = R} = {<<M1, R, "full">>}
          /\ pc = "done" =>
                /\ R \in DOMAIN tops
                /\ tops[R]["full"] = mods[M1].recs[R]["full"]
                /\ Effective(R)["full"] = mods[M1].recs[R]["full"]

\* C6 witness: the scenario has run to the end.
C6_Witness ==
    /\ pc = "done"
    /\ \E M0 \in Mods, M1 \in Mods, M2 \in Mods, R \in Fids :
          /\ C6_Case(M0, M1, M2, R)
          /\ tops[R]["full"] = mods[M1].recs[R]["full"]
          /\ tops[R]["full"] # mods[M0].recs[R]["full"]

\* initData is about to process source srcs[src_idx].
AtSource == pc = "initData" /\ isActive /\ src_idx <= Len(srcs)

\* C7 (force-full-import keeps attribute granularity): when a source with
\* the force-full-import tag is processed, every (record, attribute) pair it
\* captured is set to the captured value and every other pair of id_data
\* stays as it was; in particular an attribute X that an earlier source
\* promoted for record R and that was not captured for R keeps its value.
C7_ForceKeepsGranularity ==
    [][(AtSource /\ ForceFullImport(srcs[src_idx])) =>
        LET temp == init_data_loop(srcs[src_idx])
        IN \A f \in Fids, a \in ClassAttrs(cls) :
             IF f \in DOMAIN temp /\ a \in DOMAIN temp[f]
             THEN /\ f \in DOMAIN id_data' /\ a \in DOMAIN id_data'[f]
                  /\ id_data'[f][a] = temp[f][a]
             ELSE IF f \in DOMAIN id_data /\ a \in DOMAIN id_data[f]
                  THEN /\ f \in DOMAIN id_data' /\ a \in DOMAIN id_data'[f]
                       /\ id_data'[f][a] = id_data[f][a]
                  ELSE ~(f \in DOMAIN id_data' /\ a \in DOMAIN id_data'[f])
      ]_vars

\* C7 witness: source A promoted X of record R; the later source F carries
\* the force tag and holds R with another X, but captured nothing for R (a
\* bad reference), while it did overwrite another record; after initData
\* id_data[R][X] is still A's value.
C7_Witness ==
    /\ AfterInitData
    /\ \E A \in Mods, F \in Mods, R \in Fids, R2 \in Fids, X \in ClassAttrs(cls) :
         /\ A < F /\ srcs = <<A, F>> /\ ForceFullImport(F) /\ R # R2
         /\ <<A, R, X>> \in wrote
         /\ R \in DOMAIN mods[F].recs /\ R \notin DOMAIN init_data_loop(F)
         /\ mods[F].recs[R][X] # mods[A].recs[R][X]
         /\ <<F, R2, X>> \in wrote
         /\ id_data[R][X] = mods[A].recs[R][X]

\* C8 (CSV sources feed id_data directly): after initData every FormID read
\* from a CSV source for a record type of the game has the row's name in
\* id_data, whatever the plugins hold; rows of unknown record types add
\* nothing.
C8_CsvDirect ==
    AfterInitData =>
      /\ \A f \in Fids :
            ("REC" \in DOMAIN csv /\ f \in DOMAIN csv["REC"]) =>
               /\ f \in DOMAIN id_data
               /\ "full" \in DOMAIN id_data[f]
               /\ id_data[f]["full"] = csv["REC"][f][2]
      /\ \A w \in wrote :
            w[1] = 0 => "REC" \in DOMAIN csv /\ w[2] \in DOMAIN csv["REC"]

\* C8 witness: a CSV row names a record with the name that every plugin
\* holding the record gives it, among them a tagged source and its master,
\* and the name is in id_data all the same.
C8_Witness ==
    /\ AfterInitData
    /\ "REC" \in DOMAIN csv
    /\ \E f \in DOMAIN csv["REC"] :
         /\ \A m \in Mods : f \in DOMAIN mods[m].recs =>
                mods[m].recs[f]["full"] = csv["REC"][f][2]
         /\ \E m \in Mods : /\ srcs = <<m>> /\ f \in DOMAIN mods[m].recs
                            /\ mods[m].masters # <<>>
                            /\ f \in DOMAIN mods[mods[m].masters[1]].recs
         /\ id_data[f]["full"] = csv["REC"][f][2]
         /\ <<0, f, "full">> \in wrote

\* The records of source m with a bad reference: a FormID attribute captured
\* from m whose value is not null and whose owning file is None or not in
\* the load set.
BadRefRecords(m) ==
    {f \in DOMAIN mods[m].recs :
        \E a \in CapturedAttrs(m) \cap RefAttrs : BadRef(mods[m].recs[f][a])}

\* C9 (reference validation): when source m is captured, a record with a bad
\* reference contributes nothing to id_data and counts one skip for m; the
\* skip counters of the other plugins are unchanged and initData goes on to
\* the next source.
C9_BadRefSkipped ==
    [][AtSource =>
        LET m == srcs[src_idx]
        IN /\ \A f \in BadRefRecords(m) :
                /\ f \in DOMAIN id_data' <=> f \in DOMAIN id_data
                /\ f \in DOMAIN id_data => id_data'[f] = id_data[f]
           /\ skipcount' = [skipcount EXCEPT
                               ![m] = @ + Cardinality(BadRefRecords(m))]
           /\ pc' = "initData" /\ src_idx' = src_idx + 1
      ]_vars

\* The union of the attribute tuples (rec_attrs and _fid_rec_attrs) of the
\* tags that plugin m carries.
TagUnion(m) ==
    UNION {rec_attrs(cls)[t] \cup fid_rec_attrs(cls)[t] :
              t \in mods[m].tags \cap ClassTags(cls)}

\* C10 (per-plugin attribute subsets of a multi-tag importer): the
\* attributes captured from a source are exactly the union of the attribute
\* tuples of the tags it carries, and a source writes no other attribute to
\* id_data.
C10_TagAttrs ==
    /\ \A m \in Mods :
          mods[m].tags \cap ClassTags(cls) # {} =>
             \A f \in DOMAIN init_data_loop(m) :
                DOMAIN init_data_loop(m)[f] = TagUnion(m)
    /\ \A w \in wrote : w[1] # 0 => w[3] \in TagUnion(w[1])

\* C10 witness: two sources with different tags edited both the eyes and the
\* face of one record; the one tagged NPC.Eyes wrote the eyes only, the one
\* tagged NPC.FaceGen the face only.
C10_Witness ==
    /\ AfterInitData
    /\ \E A \in Mods, B \in Mods, R \in Fids :
         /\ A # B
         /\ mods[A].tags = {"NPC.Eyes"} /\ mods[B].tags = {"NPC.FaceGen"}
         /\ R \in DOMAIN mods[A].recs /\ R \in DOMAIN mods[B].recs
         /\ EditsAttr(A, R, "eye") /\ EditsAttr(A, R, "fggs_p")
         /\ EditsAttr(B, R, "eye") /\ EditsAttr(B, R, "fggs_p")
         /\ {w \in wrote : w[1] = A} = {<<A, R, "eye">>}
         /\ {w \in wrote : w[1] = B} = {<<B, R, "fggs_p">>}
         /\ DOMAIN id_data[R] = {"eye", "fggs_p"}

\* C11 (the delta map is transient): in every state after buildPatch has
\* returned, id_data is empty, whether the patcher was active (buildPatch
\* cleared it) or inactive (buildPatch returned at once) when it was called.
C11_DeltaTransient == pc = "done" => id_data = EmptyMap

\* C11 witness: buildPatch of an active patcher has returned; id_data held
\* an entry written by a source, which was applied to a kept record, and is
\* empty now.
C11_Witness ==
    /\ pc = "done" /\ isActive
    /\ \E w \in wrote : w[2] \in kept
    /\ id_data = EmptyMap

MismatchAt(m) ==
    \E k \in 1..Len(mods[m].masters), f \in Fids :
        /\ f \in DOMAIN mods[m].recs /\ ~RecIgnored(m, f)
        /\ f \in DOMAIN mods[mods[m].masters[k]].recs
        /\ \E a \in CapturedAttrs(m) :
              a \notin DOMAIN mods[mods[m].masters[k]].recs[f]

\* The build is over: the last category has completed or failed.
BuildOver == cat_idx = Len(cats) /\ pc \in {"done", "failed"}

\* C13 (a type mismatch is confined to its category): initData of a
\* category fails with ModSigMismatchError exactly at a source one of whose
\* masters holds a captured record without a captured attribute; no step of
\* initData, the failing one included, changes the staged records or the
\* kept set; after a failure the build goes on until every category has
\* ended, and a category without a mismatch ends with its buildPatch done.
C13_FailureConfined ==
    /\ [](pc = "failed" => MismatchAt(srcs[src_idx]))
    /\ []((pc = "initData" /\ isActive) =>
            \A j \in 1..(src_idx - 1) : ~MismatchAt(srcs[j]))
    /\ [][pc = "initData" => (tops' = tops /\ kept' = kept)]_vars
    /\ [](BuildOver =>
            ((\A m \in Mods : mods[m].tags \cap ClassTags(cls) # {} =>
                                    ~MismatchAt(m)) => pc = "done"))
    /\ (pc = "failed" ~> BuildOver)

\* C13 witness: the first category staged and kept a record, the second
\* category's initData has failed with that record staged and kept as
\* before.
C13_Witness ==
    /\ cat_idx = 2 /\ outcomes = <<"done">> /\ pc = "failed"
    /\ kept # {} /\ kept \subseteq DOMAIN tops

\* The row is well-formed for the reader: it has the reader's fields, its
\* object indexes carry the 0x prefix, and its numbers parse.
WellFormed(r, fields) ==
    CASE r = "CoblExhaustion" ->
            /\ Len(fields) >= 4 /\ fields[2] \in {"0x1", "0x2"}
            /\ fields[4] = "1"
      [] r = "MFactMarker" ->
            /\ Len(fields) >= 6 /\ fields[2] \in {"0x1", "0x2"}
            /\ fields[5] # ""
      [] OTHER ->
            /\ Len(fields) >= 7 /\ fields[3] \in {"0x1", "0x2"}
            /\ fields[7] \in {"0x1", "0x2"}

\* The row is malformed for the reader: too few fields, an object index
\* without the 0x prefix, or a number that does not parse.
Malformed(r, fields) ==
    CASE r = "CoblExhaustion" ->
            \/ Len(fields) < 4 \/ fields[2] \notin {"0x1", "0x2"}
            \/ fields[4] # "1"
      [] r = "MFactMarker" ->
            Len(fields) < 6 \/ fields[2] \notin {"0x1", "0x2"}
      [] OTHER ->
            \/ Len(fields) < 7 \/ fields[3] \notin {"0x1", "0x2"}
            \/ fields[7] \notin {"0x1", "0x2"}

\* The id that a well-formed row addresses.
RowId(r, fields) ==
    IF r = "UpdateReferences"
    THEN (IF fields[3] = "0x1" THEN 1 ELSE 2)
    ELSE (IF fields[2] = "0x1" THEN 1 ELSE 2)

\* C14 (malformed side-channel rows are skipped): readFromText never
\* raises on a row; a malformed row leaves what was imported as it is and
\* the reading goes on with the next row; and when the file has been read,
\* every well-formed row of it has been imported.
C14_MalformedSkipped ==
    /\ [](rd_pc # "raised")
    /\ [][(rd_pc = "read" /\ row_idx <= Len(rows)
             /\ Malformed(reader, rows[row_idx]))
           => (table' = table /\ row_idx' = row_idx + 1)]_vars
    /\ [](rd_pc = "end" =>
            \A i \in 1..Len(rows) :
                WellFormed(reader, rows[i]) =>
                    RowId(reader, rows[i]) \in DOMAIN table)

\* buildPatch of the maximum-weight tweak is about to treat a potion, for
\* which wants_record has been evaluated.
AtCapApply ==
    /\ tw_pc = "apply"
    /\ CurTweak = "AssortedTweak_PotionWeight"

\* C15 as claimed (potion maximum-weight cap, chosen cap c): every staged
\* potion that is not an OBME record, has no script effect and weighs more
\* than c ends with weight exactly c and is kept; a potion whose weight is
\* at or below c is neither modified nor kept.
C15_CapAll ==
    [][AtCapApply =>
        LET r == patch["ALCH"][rec_idx]
        IN /\ (~r.obme /\ ~r.seff /\ r.weight > chosen.cap) =>
                /\ patch'["ALCH"][rec_idx].weight = chosen.cap
                /\ <<"ALCH", rec_idx>> \in tkept'
           /\ r.weight <= chosen.cap =>
                /\ patch' = patch
                /\ tkept' = tkept]_vars

\* C15 amended: every staged potion that is not an OBME record, has no
\* script effect and weighs more than c and less than 1.0 ends with weight
\* exactly c, its other fields unchanged, and is kept; every other potion,
\* the potions at or below c among them, is neither modified nor kept.
C15_CapStandard ==
    [][AtCapApply =>
        LET r == patch["ALCH"][rec_idx]
        IN IF /\ ~r.obme /\ ~r.seff
              /\ r.weight > chosen.cap /\ r.weight < StandardLimit
           THEN /\ patch' = [patch EXCEPT !["ALCH"][rec_idx].weight = chosen.cap]
                /\ tkept' = tkept \cup {<<"ALCH", rec_idx>>}
           ELSE /\ patch' = patch
                /\ tkept' = tkept]_vars

\* C15 witness: with the cap 0.1 alone enabled, a potion of weight 0.5 has
\* got weight 0.1 and is kept, and a potion of weight 0.05 is as it was and
\* is not kept.
C15_Witness ==
    /\ tw_pc = "done" /\ tw_on = {"AssortedTweak_PotionWeight"}
    /\ chosen.cap = 2
    /\ \E i \in DOMAIN patch["ALCH"], j \in DOMAIN patch["ALCH"] :
          /\ patch0["ALCH"][i].weight = 10 /\ patch["ALCH"][i].weight = 2
          /\ <<"ALCH", i>> \in tkept
          /\ patch0["ALCH"][j].weight = 1 /\ patch["ALCH"][j].weight = 1
          /\ <<"ALCH", j>> \notin tkept

\* Both potion tweaks are enabled.
BothPotionTweaks ==
    {"AssortedTweak_PotionWeight", "AssortedTweak_PotionWeightMinimum"}
        \subseteq tw_on

\* The weight a potion has after the cap and then the floor.
CapThenFloor(r) ==
    LET w == IF /\ ~r.obme /\ ~r.seff
                /\ chosen.cap < r.weight /\ r.weight < StandardLimit
             THEN chosen.cap ELSE r.weight
    IN IF w < chosen.floor THEN chosen.floor ELSE w

\* C16 (fixed order of the potion tweaks): whenever both potion reweigh
\* tweaks are enabled, the pass of the maximum-weight cap over the ALCH
\* records has completed when the pass of the minimum-weight floor runs,
\* and after buildPatch every potion's weight is the one that the cap and
\* then the floor give its initial weight.
C16_CapBeforeFloor ==
    BothPotionTweaks =>
        /\ (/\ tw_pc \in {"wants", "apply"}
            /\ tw_idx <= Len(enabled_tweaks)
            /\ CurTweak = "AssortedTweak_PotionWeightMinimum") =>
                \E j \in 1..(tw_idx - 1) :
                    enabled_tweaks[j] = "AssortedTweak_PotionWeight"
        /\ tw_pc = "done" =>
                \A i \in DOMAIN patch["ALCH"] :
                    patch["ALCH"][i].weight = CapThenFloor(patch0["ALCH"][i])

\* C16 witness: both tweaks have run with cap 0.1 and floor 0.2 on a potion
\* of weight 0.5, which weighs 0.2 now; the floor first would have left it
\* at 0.1.
C16_Witness ==
    /\ BothPotionTweaks /\ tw_pc = "done"
    /\ chosen.cap = 2 /\ chosen.floor = 4
    /\ \E i \in DOMAIN patch["ALCH"] :
          /\ patch0["ALCH"][i] = [weight |-> 10, obme |-> FALSE, seff |-> FALSE]
          /\ patch["ALCH"][i].weight = 4
          /\ <<"ALCH", i>> \in tkept

\* C17 (eligibility predicates are pure): evaluating wants_record changes
\* neither the records of the patch, nor the kept set, nor the state of the
\* tweak object; the records and the kept set change only in the apply
\* step and only for a record for which wants_record returned true.
C17_WantsPure ==
    [][/\ (tw_pc = "wants" /\ tw_pc' = "apply") =>
            (patch' = patch /\ tkept' = tkept /\ inBold' = inBold)
       /\ (patch' # patch \/ tkept' # tkept) =>
            (tw_pc = "apply" /\ wanted)]_vars

\* The eye mesh filtering is over.
FilterOver == rc_pc \in {"sort", "npc", "done"} /\ races # <<>>

\* The races the claims on the eye meshes are about: filtered (with eyes,
\* both eye models and no x117 editor id), with eyes of several mesh pairs.
SeveralMeshes(i) ==
    /\ ~FilterSkips(races0[i])
    /\ Cardinality(DOMAIN mesh_eye(races0[i])) > 1

\* C18 as stated: after the filtering, the mesh pair of a playable race
\* with both eye models and eyes of several mesh pairs is a pair that most
\* of its eyes have, and the blue pair if that is one of them.
C18_MajorityRule ==
    FilterOver =>
        \A i \in DOMAIN races :
            (SeveralMeshes(i) /\ IsPlayable(races0[i])) =>
                /\ path_lower(races[i].mesh) \in maxEyesMeshes(races0[i])
                /\ blueEyeMesh \in maxEyesMeshes(races0[i])
                      => path_lower(races[i].mesh) = blueEyeMesh

\* C18 amended: after the filtering, the mesh pair of such a race is the
\* blue pair if one of its eyes has it and the race did not have the
\* argonian pair; else the argonian pair if one of its eyes has it; else
\* the pair the race had if one of its eyes has it; else a pair that most
\* of its eyes have.
C18_PriorityOrder ==
    FilterOver =>
        \A i \in DOMAIN races :
            (SeveralMeshes(i) /\ IsPlayable(races0[i])) =>
                LET pairs == DOMAIN mesh_eye(races0[i])
                    before == path_lower(races0[i].mesh)
                    after == path_lower(races[i].mesh)
                    first == blueEyeMesh \in pairs /\ before # argonianEyeMesh
                    second == ~first /\ argonianEyeMesh \in pairs
                    third == ~first /\ ~second /\ before \in pairs
                IN /\ first => after = blueEyeMesh
                   /\ second => after = argonianEyeMesh
                   /\ third => after = before
                   /\ (~first /\ ~second /\ ~third) =>
                          after \in maxEyesMeshes(races0[i])

\* A playable race with three eyes of the pair "a" and one of the blue
\* pair has been filtered and has the blue pair.
C18_Witness ==
    /\ FilterOver
    /\ IsPlayable(races0[1]) /\ SeveralMeshes(1)
    /\ Len(races0[1].eyes) = 4
    /\ DOMAIN eye_mesh = 1..4
    /\ Cardinality({e \in 1..4 : eye_mesh[e] = "a"}) = 3
    /\ Cardinality({e \in 1..4 : eye_mesh[e] = blueEyeMesh}) = 1
    /\ races[1].mesh = blueEyeMesh

HairAllowed(h, npc) ==
    /\ h \in DOMAIN hair_flags
    /\ IF npc.female THEN ~hair_flags[h].notFemale
       ELSE ~hair_flags[h].notMale

\* C20: the final eye list of a race is its vanilla eyes that are in
\* race.eyes, else the first eye of race.eyes; an NPC that is not the
\* player and not excluded by the race/name filter, without eye and of a
\* race with a final eye list, gets an eye of that list; such an NPC
\* without hair gets a hair of its race that is allowed for its sex, if
\* there is one; an eye or a hair an NPC has stays; every NPC that is
\* modified is kept.
C20_ValidDefaults ==
    /\ [][(rc_pc = "sort" /\ rc_idx \in DOMAIN final_eyes') =>
            LET eyes == races[rc_idx].eyes
                vanilla == IF rc_idx \in DOMAIN vanilla_eyes
                           THEN vanilla_eyes[rc_idx] ELSE <<>>
                present == SelectSeq(vanilla, LAMBDA x : x \in Range(eyes))
            IN final_eyes'[rc_idx] =
                  IF present # <<>> THEN present ELSE <<eyes[1]>>]_vars
    /\ [][rc_pc = "npc" =>
            LET before == npcs[rc_idx]
                after == npcs'[rc_idx]
                eligible == ~before.player /\ ~NpcSkipped(before)
                valid == {h \in Range(races[before.race].hairs) :
                             HairAllowed(h, before)}
            IN /\ (eligible /\ before.eye = 0
                      /\ before.race \in DOMAIN final_eyes) =>
                        after.eye \in Range(final_eyes[before.race])
               /\ (before.hair = 0 /\ after.hair # 0) =>
                        eligible /\ after.hair \in valid
               /\ (eligible /\ before.hair = 0 /\ valid # {}
                      /\ before.race \in DOMAIN defaultHair) =>
                        after.hair \in valid
               /\ before.eye # 0 => after.eye = before.eye
               /\ before.hair # 0 => after.hair = before.hair
               /\ after # before => <<"NPC_", rc_idx>> \in rkept'
               /\ ~eligible => after = before]_vars

\* A female NPC without eye and hair, of a playable race with the eyes
\* <<2, 1>>, none of them vanilla, and two hairs, has got the first eye and
\* the hair for females only, and is kept.
C20_Witness ==
    /\ rc_pc = "done"
    /\ npcs0 # <<>> /\ races0 # <<>>
    /\ npcs0[1].eye = 0 /\ npcs0[1].hair = 0 /\ npcs0[1].female
    /\ races0[1].eyes = <<2, 1>> /\ races0[1].hairs = <<2, 1>>
    /\ vanilla_eyes = EmptyMap
    /\ 1 \in DOMAIN final_eyes /\ final_eyes[1] = <<2>>
    /\ npcs[1].eye = 2 /\ npcs[1].hair = 2
    /\ <<"NPC_", 1>> \in rkept

\* The CSV rows of the SpellsPatcher's record type, as parsed.
CsvRows == IF "REC" \in DOMAIN csv THEN ParsedCsv["REC"] ELSE EmptyMap

\* C29: the CSV sources are processed when the loop over the plugin sources
\* is over; after the step that processes them, id_data[f] of a FormID f
\* with a CSV row is exactly the attribute map of the row (no attribute that
\* a plugin promoted and the row lacks is left), and the entry of every
\* other FormID is as the plugins left it.
C29_CsvReplacesEntry ==
    /\ [][(pc = "initData" /\ pc' = "update" /\ isActive) =>
            /\ src_idx > Len(srcs)
            /\ \A f \in DOMAIN CsvRows :
                  f \in DOMAIN id_data' /\ id_data'[f] = CsvRows[f]
            /\ \A f \in Fids \ DOMAIN CsvRows :
                  /\ f \in DOMAIN id_data' <=> f \in DOMAIN id_data
                  /\ f \in DOMAIN id_data => id_data'[f] = id_data[f]]_vars
    /\ [](pc = "initData" => \A w \in wrote : w[1] # 0)

\* A plugin promoted both attributes of a record, the CSV row of the record
\* has the first attribute only, and the entry of id_data is the row; the
\* CSV has a row for another FormID too.
C29_Witness ==
    /\ cls = "SpellsPatcher" /\ AfterInitData
    /\ \E m \in Mods : <<m, 1, "cost">> \in wrote /\ <<m, 1, "level">> \in wrote
    /\ 1 \in DOMAIN CsvRows /\ DOMAIN CsvRows[1] = {"cost"}
    /\ 1 \in DOMAIN id_data /\ DOMAIN id_data[1] = {"cost"}

\* The scan pass over all plugins is over, and it went plugin by plugin.
ScanPassOver == sc_kinds # <<>> /\ sc_order = "plugin" /\ sc_pos = <<NMods + 1, NMods + 1>>

\* Plugin m contains the record and the record meets the staging condition
\* of the scanModFile of the kind.
MeetsStaging(kind, fid, m) == fid \in ScanSets(kind, EmptyMap, sc_plugins[m])

\* The greatest element of a non-empty set of numbers.
Greatest(S) == CHOOSE x \in S : \A y \in S : y <= x

\* C23 as stated: after the scan pass of a patcher (the other patcher's
\* scanModFile being the empty one), the snapshot of a FormID that the
\* patcher staged is the copy from the last plugin that contains the record
\* and meets the patcher's staging condition.
C23_LastMeetingWins ==
    (ScanPassOver /\ sc_kinds[2] = "MultiTweakItem") =>
        \A st \in sc_staged :
            LET fid == st[2]
                ms == {m \in Mods : MeetsStaging(sc_kinds[1], fid, m)}
            IN /\ sc_from[fid] = Greatest(ms)
               /\ sc_patch[fid] = sc_plugins[Greatest(ms)][fid]

\* C23 amended: after the scan pass, the snapshot of every FormID in the
\* patch is the copy from the last plugin that contains the record,
\* whether or not that plugin's record meets a staging condition.
C23_LastContainingWins ==
    ScanPassOver =>
        \A fid \in DOMAIN sc_patch :
            LET ms == {m \in Mods : fid \in DOMAIN sc_plugins[m]}
            IN /\ sc_from[fid] = Greatest(ms)
               /\ sc_patch[fid] = sc_plugins[Greatest(ms)][fid]

\* A preserver staged the record from the first plugin, the last plugin
\* holds the record with the value of id_data, which does not meet the
\* staging condition, and the snapshot is the last plugin's.
C23_Witness ==
    /\ ScanPassOver
    /\ sc_kinds = <<"_APreserver", "MultiTweakItem">>
    /\ <<1, 1, 1>> \in sc_staged
    /\ 1 \in DOMAIN sc_plugins[NMods] /\ 1 \in DOMAIN sc_data
    /\ sc_plugins[NMods][1] = sc_data[1]
    /\ sc_plugins[1][1] # sc_data[1]
    /\ sc_from[1] = NMods /\ sc_patch[1] = sc_data[1]

RECURSIVE ScannedInOrder(_)
\* The records of the patch after the scan of the plugins 1..m, plugin by
\* plugin, the first patcher before the second.
ScannedInOrder(m) ==
    IF m = 0 THEN EmptyMap
    ELSE LET plugin == sc_plugins[m]
             T1 == PatchUpdated(ScannedInOrder(m - 1), plugin)
             T2 == SetRecords(T1, ScanSets(sc_kinds[1], T1, plugin), plugin)
         IN SetRecords(T2, ScanSets(sc_kinds[2], T2, plugin), plugin)

\* The records of the patch that patcher p has staged itself.
OwnRecords(p) ==
    [fid \in {f \in DOMAIN sc_patch : \E m \in Mods : <<p, f, m>> \in sc_staged}
        |-> sc_patch[fid]]

\* Every scanModFile call of both patchers has been made.
AllScanned == sc_kinds # <<>> /\ sc_pos = <<NMods + 1, NMods + 1>>

\* C24, the result: in whatever order the scanModFile calls of the two
\* patchers were made, the patch ends with the staged records and the
\* snapshots of the scan that goes plugin by plugin.
C24_SameResult == AllScanned => sc_patch = ScannedInOrder(NMods)

\* C24, the reads: what a scanModFile call stages does not depend on the
\* records that the other patcher's calls have put into the patch.
C24_NoForeignRead ==
    [][\A p \in {1, 2} :
          (sc_kinds # <<>> /\ sc_pos'[p] # sc_pos[p]) =>
              ScanSets(sc_kinds[p], sc_patch, sc_plugins[sc_pos[p]]) =
              ScanSets(sc_kinds[p], OwnRecords(p), sc_plugins[sc_pos[p]])]_vars

\* C24: the scanModFile calls of two patchers may be made in any order:
\* the result is the same, and no call reads what the other patcher's
\* calls wrote.
C24_ScanIndependent == []C24_SameResult /\ C24_NoForeignRead

\* Every mutation of patcher P is before every mutation of patcher Q.
BuildsBefore(P, Q) ==
    \A i, j \in DOMAIN od_log : (od_log[i] = P /\ od_log[j] = Q) => i < j

\* The index of patcher p in the list of the enabled patchers.
InstanceIndex(p) == CHOOSE i \in DOMAIN od_instances : od_instances[i] = p

\* C22: the mutations of a patcher of lower editOrder are all before those
\* of a patcher of higher editOrder; UpdateReferences builds before the
\* Gmst, Clothes, Assorted and Names tweakers, these before the
\* RacePatcher and the special patchers, and Gmst before Clothes before
\* Assorted and Names; patchers of equal editOrder build one after the
\* other in the order of the list of enabled patchers.
C22_FixedOrder ==
    /\ \A i, j \in DOMAIN od_log :
          i < j =>
            /\ editOrder(od_log[i]) <= editOrder(od_log[j])
            /\ editOrder(od_log[i]) = editOrder(od_log[j]) =>
                  InstanceIndex(od_log[i]) <= InstanceIndex(od_log[j])
    /\ \A T \in {"GmstTweaker", "ClothesTweaker", "AssortedTweaker",
                  "NamesTweaker"} :
          /\ BuildsBefore("UpdateReferences", T)
          /\ BuildsBefore(T, "RacePatcher")
          /\ BuildsBefore(T, "CoblExhaustion")
    /\ BuildsBefore("GmstTweaker", "ClothesTweaker")
    /\ BuildsBefore("ClothesTweaker", "AssortedTweaker")
    /\ BuildsBefore("ClothesTweaker", "NamesTweaker")

\* The build of the patchers NamesTweaker, AssortedTweaker and
\* ClothesTweaker, enabled in this order, is over: the ClothesTweaker has
\* made its mutations first, and the other two in the order of the list.
C22_Witness ==
    /\ od_pc = "done"
    /\ od_instances = <<"NamesTweaker", "AssortedTweaker", "ClothesTweaker">>
    /\ od_log = <<"ClothesTweaker", "ClothesTweaker", "NamesTweaker",
                  "NamesTweaker", "AssortedTweaker", "AssortedTweaker">>

\* C21: two builds from the same inputs assign the same eye, hair and hair
\* length to every NPC, whatever other code drew random numbers before.
C21_Reproducible == rn_pc = "done" => rn_npcs = rn_first

\* Two builds from the same inputs assigned a hair length to an NPC.
C21_Witness ==
    /\ rn_pc = "done"
    /\ \E i \in DOMAIN rn_npcs : rn_npcs0[i].hairLength = 0

\* Cobl Main.esm is in the load set with a version above 1.65.
CoblPresent == ce_loadSet /\ ce_version > CoblVersion

\* C25: when Cobl Main.esm is absent or not above 1.65, buildPatch
\* modifies no SPEL record and keeps none, also with source files selected.
C25_OnlyWithCobl ==
    (ce_pc = "done" /\ ~CoblPresent) =>
        (ce_kept = {} /\ ce_patch = ce_scanned)

\* buildPatch has run without Cobl Main.esm, with a source file that has
\* a time for a greater power of the plugin.
C25_Witness ==
    /\ ce_pc = "done" /\ ~CoblPresent
    /\ ce_srcs # <<>>
    /\ \E fid \in DOMAIN ce_srcs[1] :
          ce_srcs[1][fid] # 0 /\ ce_plugin[fid].spellType = 2

\* A value of the cellData entry differs from that of the cell.
CellDiffers(cell, data) ==
    \/ \E a \in DOMAIN data.attrs : data.attrs[a] # cell[a]
    \/ \E f \in DOMAIN data.flags : data.flags[f] # cell.flags[f]

\* C26: after buildPatch every staged cell with an entry in cellData has
\* the cellData value of every attribute and flag that differed, the
\* regions too; it is kept if and only if a value differed, and a cell
\* with no differing value is as it was.
C26_CopiesEveryDiffering ==
    (ci_pc = "done" /\ ci_isActive) =>
        \A i \in DOMAIN ci_cells :
            LET cell0 == ci_cells0[i]
                cell == ci_cells[i]
            IN cell.fid \in DOMAIN ci_data0 =>
                 LET data == ci_data0[cell.fid]
                 IN /\ \A a \in DOMAIN data.attrs : cell[a] = data.attrs[a]
                    /\ \A f \in DOMAIN data.flags :
                          cell.flags[f] = data.flags[f]
                    /\ (cell.fid \in ci_kept) <=> CellDiffers(cell0, data)
                    /\ ~CellDiffers(cell0, data) => cell = cell0

\* buildPatch has run on a cell of two regions for which cellData holds
\* one of them only.
C26_Witness ==
    /\ ci_pc = "done" /\ ci_isActive
    /\ 1 \in DOMAIN ci_data0
    /\ "regions" \in DOMAIN ci_data0[1].attrs
    /\ ci_data0[1].attrs["regions"] = <<1>>
    /\ ci_cells0[1].regions = <<1, 2>>

\* The record has the cost and the charge of n uses of the charge amount.
HasUses(record, amount, n) ==
    IF n > 0
    THEN /\ record.enchantCost = (IF amount \div n >= 1 THEN amount \div n
                                  ELSE 1)
         /\ record.chargeAmount = record.enchantCost * n
    ELSE record.enchantCost = 0 /\ record.chargeAmount = 0

\* C27: after the first buildPatch every ENCH record of itemType 1 or 2
\* has enchantCost = max(old chargeAmount div n, 1) and chargeAmount =
\* enchantCost * n for n > 0 uses, and both 0 for n = 0; a record that had
\* these values, or is of another itemType, is as it was and not kept; the
\* second buildPatch on the result changes and keeps nothing.
C27_NumberOfUses ==
    /\ (en_pc = "built") =>
          \A i \in DOMAIN en_records :
              LET old == en_records0[i]
                  record == en_records[i]
              IN /\ old.itemType \in {1, 2} =>
                       HasUses(record, old.chargeAmount, en_uses)
                 /\ (old.itemType \notin {1, 2}
                        \/ HasUses(old, old.chargeAmount, en_uses)) =>
                       (record = old /\ i \notin en_kept)
                 /\ record.itemType = old.itemType
    /\ (en_run = 2) => (en_records = en_first /\ en_kept = {})

\* The second buildPatch is over, on a weapon enchantment whose charge
\* amount was below the number of uses and was changed by the first.
C27_Witness ==
    /\ en_pc = "done"
    /\ en_records0[1].itemType = 1
    /\ en_records0[1].chargeAmount < en_uses
    /\ en_first[1] # en_records0[1]

\* The union of the race's own list and the lists of the similar races
\* whose list differs from it.
SimilarUnion(race) ==
    Range(mg_extra[race]) \cup
    UNION {Range(mg_extra[r]) :
             r \in {x \in DOMAIN mg_extra :
                      Similar(race, x) /\ mg_extra[x] # mg_extra[race]}}

\* The tweak has changed the list of the race.
MergeChanged(race) ==
    race \in mg_kept \/ mg_lists[race] # mg_extra[race]

\* C28: after the full hair merge every race whose hair list was changed
\* has the union of its own hairs and those of every similar race with
\* another hair list, as the eyes tweak gives for eyes, and is kept.
C28_FullHairMerge ==
    (mg_pc = "done" /\ mg_kind = "hairs") =>
        \A race \in DOMAIN mg_extra :
            MergeChanged(race) =>
                /\ Range(mg_lists[race]) = SimilarUnion(race)
                /\ race \in mg_kept

\* The rule holds for the eyes tweak.
C28_FullEyeMerge ==
    (mg_pc = "done" /\ mg_kind = "eyes") =>
        \A race \in DOMAIN mg_extra :
            MergeChanged(race) =>
                /\ Range(mg_lists[race]) = SimilarUnion(race)
                /\ race \in mg_kept

\* The full hair merge is over, on a race with two similar races of
\* different hairs.
C28_Witness ==
    /\ mg_pc = "done" /\ mg_kind = "hairs"
    /\ DOMAIN mg_extra = {<<"khajiit">>, <<"khajiit", "(rbp)">>,
                          <<"ohmes", "khajiit">>}
    /\ mg_extra[<<"khajiit">>] = <<1>>
    /\ mg_extra[<<"khajiit", "(rbp)">>] = <<2>>
    /\ mg_extra[<<"ohmes", "khajiit">>] = <<3>>

\* C30: every race that the import part of buildPatch changed, if only in
\* its spells and if not playable, is kept when buildPatch is over.
C30_ImportKept ==
    im_pc = "done" =>
        \A i \in DOMAIN im_races0 :
            im_imported[i] # im_races0[i] => i \in im_kept

\* buildPatch is over on a race that is not playable and of which the
\* import changed the spells only.
C30_Witness ==
    /\ im_pc = "done"
    /\ ~im_races0[1].playable
    /\ im_imported[1].spells # im_races0[1].spells
    /\ [im_imported[1] EXCEPT !.spells = im_races0[1].spells] = im_races0[1]

====
